---------------------------- MODULE Spec2Model ----------------------------
(***************************************************************************)
(* A model of the restaurant site (modularized variant: main.py, crud.py,  *)
(* models.py, forms.py, utils.py).  The committed database is the set of   *)
(* table variables; a request in flight owns a session whose staged rows   *)
(* are invisible until its commit.  Money is kept in hundredths (Numeric   *)
(* (10,2)) and ratings in tenths (Numeric(2,1)), so all arithmetic is      *)
(* exact integer arithmetic, as Decimal arithmetic is.                     *)
(***************************************************************************)
EXTENDS Integers, Sequences, FiniteSets

VARIABLES
    LIQPAY_PRIVATE_KEY, \* utils.LIQPAY_PRIVATE_KEY, read from the environment
    users,              \* users table: id -> row
    tables,             \* tables table: set of rows (id, number, type, seats, ...)
    reservations,       \* reservations table: set of rows (id, user, table, status)
    products,           \* products table: id -> row
    product_ratings,    \* product_ratings table: set of rows (product, user, value)
    cart_items,         \* cart_items table: set of rows (id, user, product, quantity)
    orders,             \* orders table: row i has id i
    order_items,        \* order_items table: rows in insertion order
    co,                 \* the create_order request in flight and its session
    cb,                 \* the concurrently handled payment callbacks
    ca,                 \* the concurrently handled add-to-cart requests
    rq,                 \* the other concurrently handled requests, by worker
    session,            \* the logged-in user of each browser's session
    last                \* the request handled by the last step and its response

vars == <<LIQPAY_PRIVATE_KEY, users, tables, reservations, products,
          product_ratings, cart_items, orders, order_items, co, cb, ca, rq,
          session, last>>

\* The committed tables a request can write.
db == <<users, tables, reservations, products, product_ratings,
        cart_items, orders, order_items>>

-----------------------------------------------------------------------------
(* Bounds of the model *)

\* The add-to-cart requests that succeed in one behaviour of the shop.
MaxAdds == 3

\* The largest cart row id a behaviour of the cart hands out.
MaxCartId == 2

\* The most products the admin console adds up to.
MaxProducts == 3

\* The longest table layout an admin submits.
MaxTables == 2

None == "None"

\* The registered customers.
UserIds == {1, 2}

\* The seeded menu: name and price (in hundredths) of product i.
Catalogue ==
    <<[name |-> "borscht", price |-> 1000],
      [name |-> "varenyky", price |-> 550]>>

ProductIds == DOMAIN Catalogue

-----------------------------------------------------------------------------
(* models.py *)

OrderStatus == {"new", "cooking", "ready", "delivered", "cancelled"}
OrderType == {"dine_in", "takeaway", "delivery"}
PaymentStatus == {"pending", "paid", "failed"}

\* A User row as crud.create_user creates it.
User(is_admin) == [is_admin |-> is_admin, is_active |-> TRUE]

\* Product.image_url: absent, the URL given in the form, or the path of an
\* uploaded file (its generated token and its extension).
NoImage == [kind |-> "none"]
ImageUrl(url) == [kind |-> "url", url |-> url]
ImagePath(token, ext) == [kind |-> "upload", token |-> token, ext |-> ext]

\* A Product row as crud.add_product creates it.
Product(i) ==
    [name |-> Catalogue[i].name, price |-> Catalogue[i].price,
     rating |-> 0, is_available |-> TRUE, is_deleted |-> FALSE,
     image_url |-> NoImage]

-----------------------------------------------------------------------------
(* forms.py *)

\* OrderForm: order_type among the choices, phone required and at most 20
\* characters (the phone is modelled by its length).
OrderFormValid(form) ==
    /\ form.order_type \in {"delivery", "takeaway", "dine_in"}
    /\ form.phone_len >= 1
    /\ form.phone_len <= 20

OrderFormInputs ==
    { [order_type |-> "delivery", phone_len |-> 10],
      [order_type |-> "pickup", phone_len |-> 10],
      [order_type |-> "delivery", phone_len |-> 0],
      [order_type |-> "delivery", phone_len |-> 21] }

-----------------------------------------------------------------------------
(* crud.py: cart *)

\* The rows of a set ordered by id, as a list.
RECURSIVE RowsById(_)
RowsById(rows) ==
    IF rows = {} THEN <<>>
    ELSE LET r == CHOOSE x \in rows : \A y \in rows : x.id <= y.id
         IN <<r>> \o RowsById(rows \ {r})

get_cart_items(user_id) ==
    RowsById({i \in cart_items : i.user_id = user_id})

get_cart_item(user_id, product_id) ==
    {i \in cart_items : i.user_id = user_id /\ i.product_id = product_id}

\* The id the database gives a new cart row: one past the largest id in the
\* table (an INTEGER PRIMARY KEY without a sequence).
NextCartId ==
    IF cart_items = {} THEN 1
    ELSE (CHOOSE n \in {i.id : i \in cart_items} :
            \A i \in cart_items : i.id <= n) + 1

\* crud.add_to_cart: increment the existing row or insert one with quantity 1.
crud_add_to_cart(user_id, product_id) ==
    LET found == get_cart_item(user_id, product_id) IN
    IF found # {}
    THEN LET item == CHOOSE i \in found : \A j \in found : i.id <= j.id IN
         cart_items' = (cart_items \ {item})
                         \cup {[item EXCEPT !.quantity = item.quantity + 1]}
    ELSE cart_items' = cart_items \cup
             {[id |-> NextCartId, user_id |-> user_id,
               product_id |-> product_id, quantity |-> 1]}

\* The rows left by clear_cart's bulk delete.
clear_cart(rows, user_id) == {i \in rows : i.user_id # user_id}

-----------------------------------------------------------------------------
(* crud.py: orders *)

\* sum(i.product.price * i.quantity for i in items)
RECURSIVE OrderTotal(_)
OrderTotal(items) ==
    IF items = <<>> THEN 0
    ELSE products[Head(items).product_id].price * Head(items).quantity
           + OrderTotal(Tail(items))

NewOrder_paid(user_id, total, order_type) ==
    [order_type |-> order_type, user_id |-> user_id, total |-> total,
     status |-> "new", payment_status |-> "paid"]

\* crud.create_order: the Order row that is added to the session and flushed.
NewOrder(user_id, total, order_type) ==
    [order_type |-> order_type, user_id |-> user_id, total |-> total,
     status |-> "new", payment_status |-> "pending"]

OrderItemSnapshot_unit_quantity(order_id, cart_item) ==
    [price |-> products[cart_item.product_id].price,
     product_id |-> cart_item.product_id,
     quantity |-> 1,
     order_id |-> order_id,
     product_name |-> products[cart_item.product_id].name]

\* crud.add_order_item: the OrderItem snapshot of a cart row.
OrderItemSnapshot(order_id, cart_item) ==
    [price |-> products[cart_item.product_id].price,
     product_id |-> cart_item.product_id,
     quantity |-> cart_item.quantity,
     order_id |-> order_id,
     product_name |-> products[cart_item.product_id].name]

\* crud.get_order
get_order(order_id) ==
    IF order_id \in DOMAIN orders THEN orders[order_id] ELSE None

-----------------------------------------------------------------------------
(* main.py: requests and responses *)

Response(op, step, user, input, flash, body, code) ==
    [op |-> op, step |-> step, user |-> user, input |-> input,
     flash |-> flash, body |-> body, code |-> code]

NoRequest == Response("none", "none", 0, None, None, None, 0)

\* No create_order request in flight.
Idle ==
    [order_type |-> None, items |-> <<>>, total |-> 0, order_id |-> 0, user |-> 0,
     pc |-> "idle", new_orders |-> <<>>, new_items |-> <<>>]

\* The units put in a cart so far: those still in carts and those ordered.
RECURSIVE SumQuantity(_)
SumQuantity(rows) ==
    IF rows = <<>> THEN 0 ELSE Head(rows).quantity + SumQuantity(Tail(rows))

UnitsAdded == SumQuantity(RowsById(cart_items)) + SumQuantity(order_items)

\* No payment callback in flight.
NoCallbacks == <<>>

\* No concurrent add-to-cart request in flight.
NoAdds == <<>>

\* No other concurrent request in flight.
NoRequests == <<>>

\* No browser session is followed.
NoSessions == <<>>

-----------------------------------------------------------------------------
(* main.py: cart *)

\* "not product or product.is_deleted or not product.is_available"
ProductMissing_ignores_flags(product_id) == product_id \notin DOMAIN products

ProductMissing(product_id) ==
    \/ product_id \notin DOMAIN products
    \/ products[product_id].is_deleted
    \/ ~products[product_id].is_available

\* The request of a cart route: the path argument and whether the form
\* validates (AddToCartForm and RemoveCartForm have no field: they validate
\* when the anti-forgery token does).
CartRequest(arg, form_valid) == [arg |-> arg, form_valid |-> form_valid]

\* POST /cart/add/<product_id> by a logged-in user.
add_to_cart(u, product_id, form_valid) ==
    /\ co.pc = "idle"
    /\ IF ~form_valid
       THEN /\ last' = Response("add_to_cart", "done", u,
                                CartRequest(product_id, form_valid),
                                None, "redirect:cart", 302)
            /\ UNCHANGED cart_items
       ELSE IF ProductMissing(product_id)
       THEN /\ last' = Response("add_to_cart", "abort", u,
                                CartRequest(product_id, form_valid),
                                None, "Not Found", 404)
            /\ UNCHANGED cart_items
       ELSE /\ crud_add_to_cart(u, product_id)
            /\ last' = Response("add_to_cart", "done", u,
                                CartRequest(product_id, form_valid),
                                "added", "redirect:cart", 302)
    /\ UNCHANGED <<users, tables, ca, rq, session, reservations,
                   LIQPAY_PRIVATE_KEY,
                   products, product_ratings, orders,
                   order_items, co, cb>>

\* crud.get_cart_item_by_id
get_cart_item_by_id(item_id) == {i \in cart_items : i.id = item_id}

\* Lines 199 and 211: "not item or item.user_id != current_user.id".
NotOwnItem_missing_only(found, u) == found = {}

NotOwnItem(found, u) == found = {} \/ \E i \in found : i.user_id # u

\* UpdateCartForm: quantity is required (0 is not data) and within 1..99; a
\* form whose token does not validate is invalid whatever its quantity.
UpdateCartFormValid(form) ==
    /\ form.form_valid
    /\ form.quantity # 0
    /\ form.quantity >= 1
    /\ form.quantity <= 99

Max(a, b) == IF a >= b THEN a ELSE b

\* crud.update_cart_item: the row with its quantity clamped to at least 1.
update_cart_item(item, quantity) == [item EXCEPT !.quantity = Max(1, quantity)]

\* POST /cart/update/<item_id> by a logged-in user.
update_cart(u, item_id, form) ==
    /\ co.pc = "idle"
    /\ LET found == get_cart_item_by_id(item_id)
           request == [quantity |-> form.quantity, arg |-> item_id,
                       form_valid |-> form.form_valid]
       IN IF NotOwnItem(found, u)
          THEN /\ last' = Response("update_cart", "abort", u, request,
                                   None, "Forbidden", 403)
               /\ UNCHANGED cart_items
          ELSE LET item == CHOOSE i \in found : TRUE IN
               /\ cart_items' =
                     IF UpdateCartFormValid(form)
                     THEN (cart_items \ {item})
                             \cup {update_cart_item(item, form.quantity)}
                     ELSE cart_items
               /\ last' = Response("update_cart", "done", u, request,
                                   None, "redirect:cart", 302)
    /\ UNCHANGED <<users, tables, ca, rq, session, reservations,
                   LIQPAY_PRIVATE_KEY,
                   products, product_ratings, orders,
                   order_items, co, cb>>

\* POST /cart/remove/<item_id> by a logged-in user.
remove_from_cart(u, item_id, form_valid) ==
    /\ co.pc = "idle"
    /\ LET found == get_cart_item_by_id(item_id) IN
       IF NotOwnItem(found, u)
       THEN /\ last' = Response("remove_from_cart", "abort", u,
                                CartRequest(item_id, form_valid),
                                None, "Forbidden", 403)
            /\ UNCHANGED cart_items
       ELSE /\ cart_items' = IF form_valid THEN cart_items \ found
                             ELSE cart_items
            /\ last' = Response("remove_from_cart", "done", u,
                                CartRequest(item_id, form_valid),
                                None, "redirect:cart", 302)
    /\ UNCHANGED <<users, tables, ca, rq, session, reservations,
                   LIQPAY_PRIVATE_KEY,
                   products, product_ratings, orders,
                   order_items, co, cb>>

-----------------------------------------------------------------------------
(* main.py: create_order *)

\* Line 231: "if not items".
CartIsEmpty_never(items) == FALSE

CartIsEmpty(items) == items = <<>>

\* Lines 224-246: validate the form, read the cart, compute the total and stage
\* the order (crud.create_order flushes, it does not commit).
create_order_begin(u, form) ==
    /\ co.pc = "idle"
    /\ IF ~OrderFormValid(form)
       THEN /\ last' = Response("create_order", "begin", u, form,
                                "check_order_data", "redirect:cart", 302)
            /\ UNCHANGED co
       ELSE LET items == get_cart_items(u) IN
            IF CartIsEmpty(items)
            THEN /\ last' = Response("create_order", "begin", u, form,
                                     "cart_empty", "redirect:cart", 302)
                 /\ UNCHANGED co
            ELSE LET total == OrderTotal(items) IN
                 /\ co' = [order_type |-> form.order_type,
                           items |-> items,
                           total |-> total,
                           order_id |-> Len(orders) + 1, user |-> u,
                           pc |-> IF items = <<>> THEN "clear" ELSE "items",
                           new_orders |-> <<NewOrder(u, total, form.order_type)>>,
                           new_items |-> <<>>]
                 /\ last' = Response("create_order", "begin", u, form,
                                     None, None, 0)
    /\ UNCHANGED <<users, tables, ca, rq, session, reservations,
                   LIQPAY_PRIVATE_KEY,
                   products, product_ratings, cart_items,
                   orders, order_items, cb>>

\* Lines 248-249: one crud.add_order_item per cart row that was read.
create_order_add_item ==
    /\ co.pc = "items"
    /\ LET k == Len(co.new_items) + 1 IN
       co' = [co EXCEPT
                !.new_items = Append(@, OrderItemSnapshot(co.order_id, co.items[k])),
                !.pc = IF k = Len(co.items) THEN "clear" ELSE "items"]
    /\ last' = Response("create_order", "add_item", co.user, None, None, None, 0)
    /\ UNCHANGED <<users, tables, ca, rq, session, reservations,
                   LIQPAY_PRIVATE_KEY,
                   products, product_ratings, cart_items,
                   orders, order_items, cb>>

\* Line 251: crud.clear_cart deletes the user's rows and commits the session:
\* the staged order, its staged items and the delete become visible together.
create_order_clear_cart ==
    /\ co.pc = "clear"
    /\ cart_items' = clear_cart(cart_items, co.user)
    /\ orders' = orders \o co.new_orders
    /\ order_items' = order_items \o co.new_items
    /\ co' = [co EXCEPT !.pc = "committed", !.new_orders = <<>>, !.new_items = <<>>]
    /\ last' = Response("create_order", "clear_cart", co.user, None, None, None, 0)
    /\ UNCHANGED <<users, tables, ca, rq, session, reservations,
                   LIQPAY_PRIVATE_KEY,
                   products, product_ratings, cb>>

\* Lines 252-275: crud.commit() has nothing left to commit; the payment form is
\* signed with LIQPAY_PRIVATE_KEY (str + None raises TypeError: a 500 response).
create_order_respond ==
    /\ co.pc = "committed"
    /\ co' = Idle
    /\ last' = IF LIQPAY_PRIVATE_KEY = [kind |-> "unset"]
               THEN Response("create_order", "respond", co.user, None,
                             None, "Internal Server Error", 500)
               ELSE Response("create_order", "respond", co.user, None,
                             None, "liqpay_redirect", 200)
    /\ UNCHANGED <<users, tables, ca, rq, session, reservations,
                   LIQPAY_PRIVATE_KEY,
                   products, product_ratings, cart_items,
                   orders, order_items, cb>>

\* An exception before the commit of line 251: the request ends with a 500
\* response and the session is removed, which rolls back what it staged.
create_order_fail ==
    /\ co.pc \in {"items", "clear"}
    /\ co' = Idle
    /\ last' = Response("create_order", "fail", co.user, None,
                        None, "Internal Server Error", 500)
    /\ UNCHANGED <<users, tables, ca, rq, session, reservations,
                   LIQPAY_PRIVATE_KEY,
                   products, product_ratings, cart_items,
                   orders, order_items, cb>>

-----------------------------------------------------------------------------
(* utils.py: the payment gateway's signature *)

\* Strings are sequences of characters.  LIQPAY_PRIVATE_KEY is None when the
\* environment does not set it, and may be set to the empty string.
Key1 == <<"k", "1">>
Key2 == <<"k", "2">>
EmptyString == <<>>

Unset == [kind |-> "unset"]
KeyText(chars) == [kind |-> "key", text |-> chars]

\* "not LIQPAY_PRIVATE_KEY"
NoPrivateKey == LIQPAY_PRIVATE_KEY = Unset \/ LIQPAY_PRIVATE_KEY = KeyText(EmptyString)

\* A form field of the callback (request.form.get): missing, empty, or a text.
Missing == [kind |-> "missing"]
Empty == [kind |-> "empty"]

\* "not x" of a form field or of the key.
Falsy(field) == field \in {Missing, Empty}

\* base64(SHA1(bytes)): a digest is modelled by what was hashed, so two digests
\* are equal exactly when their inputs are.
Sha1B64(bytes) == [kind |-> "digest", of |-> bytes]

\* key + data + key
Concat3(a, b, c) == <<a, b, c>>

verify_liqpay_signature_unset_key_as_empty(data_b64, signature) ==
    LET key == IF LIQPAY_PRIVATE_KEY = Unset THEN EmptyString
               ELSE LIQPAY_PRIVATE_KEY.text
    IN Sha1B64(Concat3(key, data_b64, key)) = signature

verify_liqpay_signature(data_b64, signature) ==
    IF NoPrivateKey
    THEN FALSE
    ELSE LET key == LIQPAY_PRIVATE_KEY.text
             expected == Sha1B64(Concat3(key, data_b64, key))
         IN expected = signature

-----------------------------------------------------------------------------
(* main.py: the order_id of a callback *)

DigitChars == <<"0", "1", "2", "3", "4", "5", "6", "7", "8", "9">>

IsDigit(c) == \E d \in DOMAIN DigitChars : DigitChars[d] = c

DigitValue(c) == (CHOOSE d \in DOMAIN DigitChars : DigitChars[d] = c) - 1

\* str(n) for n >= 0
RECURSIVE Str(_)
Str(n) ==
    IF n < 10 THEN <<DigitChars[n + 1]>>
    ELSE Str(n \div 10) \o <<DigitChars[(n % 10) + 1]>>

\* Line 261: f"ORDER_{order.id}"
OrderRef(order_id) == <<"O", "R", "D", "E", "R", "_">> \o Str(order_id)

\* s.split("_")
RECURSIVE Split(_)
Split(s) ==
    IF \A k \in DOMAIN s : s[k] # "_" THEN <<s>>
    ELSE LET k == CHOOSE x \in DOMAIN s :
                      s[x] = "_" /\ \A y \in 1..(x - 1) : s[y] # "_"
         IN <<SubSeq(s, 1, k - 1)>> \o Split(SubSeq(s, k + 1, Len(s)))

\* str.lower() of one character of the texts used here.
LowerChar(c) ==
    CASE c = "A" -> "a"
      [] c = "B" -> "b"
      [] c = "X" -> "x"
      [] c = "J" -> "j"
      [] c = "P" -> "p"
      [] c = "G" -> "g"
      [] c = "I" -> "i"
      [] c = "F" -> "f"
      [] OTHER -> c

\* str.lower()
Lower(s) == [k \in DOMAIN s |-> LowerChar(s[k])]

\* s.strip(): int() ignores surrounding whitespace.
RECURSIVE Strip(_)
Strip(s) ==
    IF s # <<>> /\ Head(s) = " " THEN Strip(Tail(s))
    ELSE IF s # <<>> /\ s[Len(s)] = " " THEN Strip(SubSeq(s, 1, Len(s) - 1))
    ELSE s

RECURSIVE DigitsValue(_)
DigitsValue(s) ==
    IF s = <<>> THEN 0
    ELSE 10 * DigitsValue(SubSeq(s, 1, Len(s) - 1)) + DigitValue(s[Len(s)])

\* int(s): an optional sign and at least one digit, else ValueError.
IntParse(s) ==
    LET t == Strip(s)
        signed == t # <<>> /\ Head(t) \in {"+", "-"}
        digits == IF signed THEN Tail(t) ELSE t
    IN IF digits # <<>> /\ \A k \in DOMAIN digits : IsDigit(digits[k])
       THEN [n |-> IF signed /\ Head(t) = "-"
                   THEN 0 - DigitsValue(digits) ELSE DigitsValue(digits),
             ok |-> TRUE]
       ELSE [n |-> 0, ok |-> FALSE]

-----------------------------------------------------------------------------
(* main.py: liqpay_order_callback *)

\* The JSON document carried (base64-encoded) in the data field.
JsonObject(order_id, status) ==
    [status |-> status, order_id |-> order_id, json |-> "object"]
JsonArray == [json |-> "array"]
NotJson == [json |-> "invalid"]

B64(doc) == [kind |-> "b64", doc |-> doc]

\* Values of the JSON member order_id.
Absent == [t |-> "absent"]
JsonStr(s) == [s |-> s, t |-> "str"]
JsonInt(n) == [n |-> n, t |-> "int"]

\* "not received_order_id": absent (None), "" or 0.
NoOrderId(v) == v = Absent \/ v = JsonStr(<<>>) \/ v = JsonInt(0)

Reply(body, code, order_id, write) ==
    [order_id |-> order_id, body |-> body, code |-> code, write |-> write]

\* Line 308: the order was already resolved.
AlreadyResolved_never(order) == FALSE

AlreadyResolved(order) == order.payment_status # "pending"

StatusTransition_success_only(status) ==
    IF status = "success" THEN "paid"
    ELSE IF status \in {"failure", "error", "reversed"} THEN "failed"
    ELSE None

\* Lines 311-318: the payment status a callback status asks for, if any.
StatusTransition(status) ==
    IF status \in {"success", "sandbox"} THEN "paid"
    ELSE IF status \in {"failure", "error", "reversed"} THEN "failed"
    ELSE None

\* Lines 279-325 up to the write: the response, and the payment status to
\* write to which order (write is None when nothing is written).
CallbackResult(data_b64, signature) ==
    IF Falsy(data_b64) \/ Falsy(signature)
    THEN Reply("Missing data", 400, 0, None)
    ELSE IF ~verify_liqpay_signature(data_b64, signature)
    THEN Reply("Invalid signature", 400, 0, None)
    ELSE IF data_b64.doc.json # "object"
    THEN Reply("Error processing callback", 500, 0, None)
    ELSE LET received_order_id == data_b64.doc.order_id
             status == data_b64.doc.status
         IN IF NoOrderId(received_order_id)
            THEN Reply("Missing order_id", 400, 0, None)
            ELSE IF received_order_id.t # "str"
            THEN Reply("Error processing callback", 500, 0, None)
            ELSE LET segments == Split(received_order_id.s) IN
                 IF Len(segments) < 2
                 THEN Reply("Invalid order_id format", 400, 0, None)
                 ELSE LET parsed == IntParse(segments[2]) IN
                      IF ~parsed.ok
                      THEN Reply("Invalid order_id format", 400, 0, None)
                      ELSE IF parsed.n \notin DOMAIN orders
                      THEN Reply("Order not found", 404, 0, None)
                      ELSE IF AlreadyResolved(orders[parsed.n])
                      THEN Reply("OK", 200, parsed.n, None)
                      ELSE Reply("OK", 200, parsed.n, StatusTransition(status))

\* crud.update_payment_status: the orders table after the write and commit.
update_payment_status(order_id, payment_status) ==
    [orders EXCEPT ![order_id].payment_status = payment_status]

Request(data_b64, signature) == [signature |-> signature, data |-> data_b64]

\* POST /liqpay_order_callback, handled without another request in between.
liqpay_order_callback(data_b64, signature) ==
    LET r == CallbackResult(data_b64, signature) IN
    /\ orders' = IF r.write = None THEN orders
                 ELSE update_payment_status(r.order_id, r.write)
    /\ last' = Response("liqpay_order_callback", "done", 0,
                        Request(data_b64, signature), None, r.body, r.code)
    /\ UNCHANGED <<users, tables, ca, rq, session, reservations,
                   LIQPAY_PRIVATE_KEY,
                   products, product_ratings, cart_items,
                   order_items, co, cb>>

-----------------------------------------------------------------------------
(* The callbacks the gateway, or anyone else, can post *)

\* The orders on file when callbacks arrive.
SeedOrders == 2

StatusInputs ==
    {"success", "sandbox", "failure", "error", "reversed", "processing", None}

\* The order_id strings create_order sends to the gateway, one of them for an
\* order that is not on file.
OrderRefs == { OrderRef(n) : n \in 1..(SeedOrders + 1) }

OtherOrderIdStrings ==
    { <<"O", "R", "D", "E", "R", "_", "x">>,
      <<"O", "R", "D", "E", "R", "1">>,
      <<"X", "_", "1">>,
      <<"_", "1">>,
      <<"O", "R", "D", "E", "R", "_", "1", "_", "2">>,
      <<"O", "R", "D", "E", "R", "_">>,
      <<"O", "R", "D", "E", "R", "_", " ", "1">>,
      <<"O", "R", "D", "E", "R", "_", "-", "1">> }

OtherOrderIds ==
    { JsonStr(s) : s \in OtherOrderIdStrings } \cup
    { JsonStr(<<>>), JsonInt(0), JsonInt(1), Absent }

DataInputs ==
    { B64(JsonObject(JsonStr(s), st)) : s \in OrderRefs, st \in StatusInputs } \cup
    { B64(JsonObject(o, "success")) : o \in OtherOrderIds } \cup
    { B64(JsonArray), B64(NotJson), Missing, Empty }

\* What a sender can put in the signature field for a given data field.
SignatureInputs(data_b64) ==
    { Sha1B64(Concat3(k, data_b64, k)) : k \in {EmptyString, Key1, Key2} } \cup
    { Sha1B64(Concat3(Key1, data_b64, EmptyString)), Missing, Empty }

\* Order k as create_order committed it, for a cart of one line.
SeedLine(k) ==
    [id |-> k, user_id |-> ((k - 1) % 2) + 1,
     product_id |-> ((k - 1) % Len(Catalogue)) + 1, quantity |-> k]

SeedOrder(k) ==
    NewOrder(SeedLine(k).user_id,
             Catalogue[SeedLine(k).product_id].price * SeedLine(k).quantity,
             "delivery")

SeedOrderItem(k) ==
    [price |-> Catalogue[SeedLine(k).product_id].price,
     product_id |-> SeedLine(k).product_id,
     quantity |-> SeedLine(k).quantity,
     order_id |-> k,
     product_name |-> Catalogue[SeedLine(k).product_id].name]

InitCallback ==
    /\ LIQPAY_PRIVATE_KEY \in {Unset, KeyText(EmptyString), KeyText(Key1)}
    /\ products = [i \in ProductIds |-> Product(i)]
    /\ product_ratings = {}
    /\ cart_items = {}
    /\ orders = [k \in 1..SeedOrders |-> SeedOrder(k)]
    /\ order_items = [k \in 1..SeedOrders |-> SeedOrderItem(k)]
    /\ co = Idle
    /\ cb = NoCallbacks
    /\ users = [u \in UserIds |-> User(FALSE)]
    /\ tables = {}
    /\ ca = NoAdds
    /\ rq = NoRequests
    /\ session = NoSessions
    /\ reservations = {}
    /\ last = NoRequest

NextCallback ==
    \E d \in DataInputs : \E s \in SignatureInputs(d) : liqpay_order_callback(d, s)

SpecCallback == InitCallback /\ [][NextCallback]_vars

-----------------------------------------------------------------------------
(* Callbacks handled concurrently: each worker has its own session, and
   another worker may run between the check of line 308 and the write *)

CallbackWorkers == {1, 2}

\* The worker is between requests.
Waiting ==
    [order_id |-> 0, pc |-> "idle", request |-> None, write |-> None, seen |-> None]

\* Lines 279-311: the worker verifies and parses the callback, loads the order
\* and checks its payment status; it answers at once unless it has to write.
callback_check(w, data_b64, signature) ==
    /\ cb[w].pc = "idle"
    /\ LET r == CallbackResult(data_b64, signature) IN
       IF r.write = None
       THEN /\ last' = Response("liqpay_order_callback", "done", w,
                                Request(data_b64, signature), None, r.body, r.code)
            /\ UNCHANGED cb
       ELSE /\ cb' = [cb EXCEPT ![w] =
                        [order_id |-> r.order_id,
                         pc |-> "write",
                         request |-> Request(data_b64, signature),
                         write |-> r.write,
                         seen |-> orders[r.order_id].payment_status]]
            /\ last' = Response("liqpay_order_callback", "check", w,
                                Request(data_b64, signature), None, None, 0)
    /\ UNCHANGED <<users, tables, ca, rq, session, reservations,
                   LIQPAY_PRIVATE_KEY,
                   products, product_ratings, cart_items,
                   orders, order_items, co>>

\* Lines 312/315 and 320: crud.update_payment_status sets the column of the
\* order the worker loaded and commits (an UPDATE by primary key).
callback_write(w) ==
    /\ cb[w].pc = "write"
    /\ orders' = update_payment_status(cb[w].order_id, cb[w].write)
    /\ cb' = [cb EXCEPT ![w] = Waiting]
    /\ last' = Response("liqpay_order_callback", "done", w, cb[w].request,
                        None, "OK", 200)
    /\ UNCHANGED <<users, tables, ca, rq, session, reservations,
                   LIQPAY_PRIVATE_KEY,
                   products, product_ratings, cart_items,
                   order_items, co>>

\* The callbacks the gateway sends for the orders on file.
Signed(data_b64) ==
    Sha1B64(Concat3(LIQPAY_PRIVATE_KEY.text, data_b64, LIQPAY_PRIVATE_KEY.text))

GatewayData ==
    { B64(JsonObject(JsonStr(OrderRef(n)), st)) :
        n \in 1..SeedOrders, st \in {"success", "failure", "processing"} }

InitRace ==
    /\ LIQPAY_PRIVATE_KEY = KeyText(Key1)
    /\ products = [i \in ProductIds |-> Product(i)]
    /\ product_ratings = {}
    /\ cart_items = {}
    /\ orders = [k \in 1..SeedOrders |-> SeedOrder(k)]
    /\ order_items = [k \in 1..SeedOrders |-> SeedOrderItem(k)]
    /\ co = Idle
    /\ cb = [w \in CallbackWorkers |-> Waiting]
    /\ users = [u \in UserIds |-> User(FALSE)]
    /\ tables = {}
    /\ ca = NoAdds
    /\ rq = NoRequests
    /\ session = NoSessions
    /\ reservations = {}
    /\ last = NoRequest

NextRace ==
    \/ \E w \in CallbackWorkers, d \in GatewayData : callback_check(w, d, Signed(d))
    \/ \E w \in CallbackWorkers : callback_write(w)

SpecRace == InitRace /\ [][NextRace]_vars

-----------------------------------------------------------------------------
(* crud.py: ratings.  A rating value is a Decimal with one fractional digit,
   kept in tenths: 35 is 3.5 *)

RaterIds == {1, 2, 3}

\* The values passed to add_or_update_rating: 0.5 and 5.5 are out of range.
RatingInputs == {5, 10, 35, 50, 55}

RatingRows_none(product_id, user_id) == {}

\* ProductRating.query.filter_by(product_id=..., user_id=...)
RatingRows(product_id, user_id) ==
    {r \in product_ratings : r.product_id = product_id /\ r.user_id = user_id}

RECURSIVE SumValues(_)
SumValues(rows) ==
    IF rows = {} THEN 0
    ELSE LET r == CHOOSE x \in rows : TRUE IN r.value + SumValues(rows \ {r})

RoundToTenth_truncating(total, count) == total \div count

\* round(avg, 1) of the Decimal avg = total / count, in tenths: Decimal rounds
\* half to even.
RoundToTenth(total, count) ==
    LET q == total \div count
        r == total % count
    IN IF 2 * r < count THEN q
       ELSE IF 2 * r > count THEN q + 1
       ELSE IF q % 2 = 0 THEN q ELSE q + 1

\* _recalculate_product_rating: the products table with the product's rating
\* set to round(avg or 0, 1) over the rows given (the flushed table).
recalculate_product_rating(rows, product_id) ==
    LET mine == {r \in rows : r.product_id = product_id}
        rating == IF mine = {} THEN 0
                  ELSE RoundToTenth(SumValues(mine), Cardinality(mine))
    IN [products EXCEPT ![product_id].rating = rating]

\* uix_product_user_rating: the rows may be flushed.
UniqueRating(rows) ==
    \A r1, r2 \in rows :
        (r1.product_id = r2.product_id /\ r1.user_id = r2.user_id) => r1 = r2

RatingCall(product_id, user_id, value) ==
    [user_id |-> user_id, product_id |-> product_id, value |-> value]

\* crud.add_or_update_rating
add_or_update_rating(product_id, user_id, value) ==
    /\ IF ~(10 <= value /\ value <= 50)
       THEN /\ last' = Response("add_or_update_rating", "raise", user_id,
                                RatingCall(product_id, user_id, value),
                                None, "ValueError", 500)
            /\ UNCHANGED <<products, product_ratings>>
       ELSE LET found == RatingRows(product_id, user_id)
                row == [user_id |-> user_id, product_id |-> product_id,
                        value |-> value]
                first == CHOOSE r \in found : TRUE
                flushed == IF found # {}
                           THEN (product_ratings \ {first}) \cup {row}
                           ELSE product_ratings \cup {row}
            IN IF UniqueRating(flushed)
               THEN /\ product_ratings' = flushed
                    /\ products' = recalculate_product_rating(flushed, product_id)
                    /\ last' = Response("add_or_update_rating", "commit", user_id,
                                        RatingCall(product_id, user_id, value),
                                        None, "saved", 200)
               ELSE /\ last' = Response("add_or_update_rating", "raise", user_id,
                                        RatingCall(product_id, user_id, value),
                                        None, "IntegrityError", 500)
                    /\ UNCHANGED <<products, product_ratings>>
    /\ UNCHANGED <<users, tables, ca, rq, session, reservations,
                   LIQPAY_PRIVATE_KEY,
                   cart_items, orders, order_items, co, cb>>

\* crud.delete_rating
delete_rating(product_id, user_id) ==
    /\ LET found == RatingRows(product_id, user_id) IN
       IF found = {}
       THEN /\ last' = Response("delete_rating", "return", user_id,
                                RatingCall(product_id, user_id, 0),
                                None, "None", 200)
            /\ UNCHANGED <<products, product_ratings>>
       ELSE LET flushed == product_ratings \ {CHOOSE r \in found : TRUE} IN
            /\ product_ratings' = flushed
            /\ products' = recalculate_product_rating(flushed, product_id)
            /\ last' = Response("delete_rating", "commit", user_id,
                                RatingCall(product_id, user_id, 0),
                                None, "True", 200)
    /\ UNCHANGED <<users, tables, ca, rq, session, reservations,
                   LIQPAY_PRIVATE_KEY,
                   cart_items, orders, order_items, co, cb>>

InitRating ==
    /\ LIQPAY_PRIVATE_KEY = [kind |-> "key", text |-> <<"k", "1">>]
    /\ products = [i \in ProductIds |-> Product(i)]
    /\ product_ratings = {}
    /\ cart_items = {}
    /\ orders = <<>>
    /\ order_items = <<>>
    /\ co = Idle
    /\ cb = NoCallbacks
    /\ users = [u \in UserIds |-> User(FALSE)]
    /\ tables = {}
    /\ ca = NoAdds
    /\ rq = NoRequests
    /\ session = NoSessions
    /\ reservations = {}
    /\ last = NoRequest

NextRating ==
    \/ \E p \in ProductIds, u \in RaterIds, v \in RatingInputs :
          add_or_update_rating(p, u, v)
    \/ \E p \in ProductIds, u \in RaterIds : delete_rating(p, u)

SpecRating == InitRating /\ [][NextRating]_vars

-----------------------------------------------------------------------------
(* The cart: add, update and remove requests, one request at a time *)

\* UpdateCartForm's NumberRange(min=1, max=99).
QuantityMax == 99

\* What a customer submits as the new quantity of a line, and whether the
\* anti-forgery token of the form validates.
UpdateCartFormInputs ==
    { [quantity |-> q, form_valid |-> TRUE] : q \in {0, 2, QuantityMax, QuantityMax + 1} }
       \cup {[quantity |-> QuantityMax, form_valid |-> FALSE]}

\* The state of product 2 in the seeded menu: off sale (added by
\* crud.add_product with is_available false) or soft-deleted.  Product 1 is
\* on sale.
ProductFlags ==
    { [is_available |-> FALSE, is_deleted |-> FALSE],
      [is_available |-> TRUE, is_deleted |-> TRUE] }

\* The quantity of the row of (user, product), 0 when there is none.
QuantityOf(rows, u, p) ==
    LET found == {i \in rows : i.user_id = u /\ i.product_id = p} IN
    IF found = {} THEN 0 ELSE (CHOOSE i \in found : TRUE).quantity

\* The adds a behaviour of the cart explores: into a row of fewer than
\* MaxAdds units or into a row at the form's maximum, and never past
\* MaxCartId.
AddExplored(u, p) ==
    /\ QuantityOf(cart_items, u, p) < MaxAdds
          \/ QuantityOf(cart_items, u, p) = QuantityMax
    /\ get_cart_item(u, p) = {} => NextCartId <= MaxCartId

InitCart ==
    /\ LIQPAY_PRIVATE_KEY = KeyText(Key1)
    /\ \E flags \in ProductFlags :
          products = [i \in ProductIds |->
                         IF i = 2
                         THEN [Product(i) EXCEPT
                                  !.is_available = flags.is_available,
                                  !.is_deleted = flags.is_deleted]
                         ELSE Product(i)]
    /\ product_ratings = {}
    /\ cart_items = {}
    /\ orders = <<>>
    /\ order_items = <<>>
    /\ co = Idle
    /\ cb = NoCallbacks
    /\ users = [u \in UserIds |-> User(FALSE)]
    /\ tables = {}
    /\ ca = NoAdds
    /\ rq = NoRequests
    /\ session = NoSessions
    /\ reservations = {}
    /\ last = NoRequest

NextCart ==
    \/ \E u \in UserIds, p \in ProductIds \cup {Len(Catalogue) + 1},
          form_valid \in BOOLEAN :
          /\ (form_valid /\ ~ProductMissing(p)) => AddExplored(u, p)
          /\ add_to_cart(u, p, form_valid)
    \/ \E u \in UserIds, item_id \in 1..(MaxCartId + 1),
          form \in UpdateCartFormInputs : update_cart(u, item_id, form)
    \/ \E u \in UserIds, item_id \in 1..(MaxCartId + 1),
          form_valid \in BOOLEAN : remove_from_cart(u, item_id, form_valid)

SpecCart == InitCart /\ [][NextCart]_vars

-----------------------------------------------------------------------------
(* Add-to-cart requests handled concurrently: each worker has its own
   session, and another worker may commit between the read of
   crud.get_cart_item and the commit of crud.add_to_cart *)

AddWorkers == {1, 2}

\* The worker is between requests.
NotAdding == [product_id |-> 0, user |-> 0, pc |-> "idle", seen |-> {}]

\* Lines 186-191 and crud.py 162: the worker validates the form, finds the
\* product on sale and reads the cart row of (user, product).
add_to_cart_read(w, u, product_id) ==
    /\ ca[w].pc = "idle"
    /\ ~ProductMissing(product_id)
    /\ ca' = [ca EXCEPT ![w] =
                [product_id |-> product_id, user |-> u, pc |-> "commit",
                 seen |-> get_cart_item(u, product_id)]]
    /\ last' = Response("add_to_cart", "read", u,
                        CartRequest(product_id, TRUE), None, None, 0)
    /\ UNCHANGED <<users, tables, rq, session, reservations,
                   LIQPAY_PRIVATE_KEY, products,
                   product_ratings, cart_items, orders, order_items, co, cb>>

\* uix_user_product: the rows may be committed.
UniqueCartItem(rows) ==
    \A r1, r2 \in rows :
        (r1.user_id = r2.user_id /\ r1.product_id = r2.product_id) => r1 = r2

\* crud.py 163-168: the worker writes what it decided on the row it read, an
\* UPDATE of the quantity by primary key or an INSERT, and commits.  An
\* INSERT that breaks uix_user_product raises IntegrityError, and an UPDATE of
\* a row that was deleted meanwhile matches no row and raises StaleDataError:
\* the request ends with a 500 and its session is rolled back.
add_to_cart_commit(w) ==
    /\ ca[w].pc = "commit"
    /\ LET u == ca[w].user
           product_id == ca[w].product_id
           seen == ca[w].seen
           written ==
              IF seen # {}
              THEN LET item == CHOOSE i \in seen : TRUE IN
                   {i \in cart_items : i.id # item.id}
                      \cup {[item EXCEPT !.quantity = item.quantity + 1]}
              ELSE cart_items \cup
                      {[id |-> NextCartId, user_id |-> u,
                        product_id |-> product_id, quantity |-> 1]}
       IN IF seen # {} /\ \A i \in seen : get_cart_item_by_id(i.id) = {}
          THEN /\ UNCHANGED cart_items
               /\ last' = Response("add_to_cart", "raise", u,
                                   CartRequest(product_id, TRUE),
                                   None, "StaleDataError", 500)
          ELSE IF UniqueCartItem(written)
          THEN /\ cart_items' = written
               /\ last' = Response("add_to_cart", "done", u,
                                   CartRequest(product_id, TRUE),
                                   "added", "redirect:cart", 302)
          ELSE /\ UNCHANGED cart_items
               /\ last' = Response("add_to_cart", "raise", u,
                                   CartRequest(product_id, TRUE),
                                   None, "IntegrityError", 500)
    /\ ca' = [ca EXCEPT ![w] = NotAdding]
    /\ UNCHANGED <<users, tables, rq, session, reservations,
                   LIQPAY_PRIVATE_KEY, products,
                   product_ratings, orders, order_items, co, cb>>

InitCartRace ==
    /\ LIQPAY_PRIVATE_KEY = KeyText(Key1)
    /\ products = [i \in ProductIds |-> Product(i)]
    /\ product_ratings = {}
    /\ cart_items = {}
    /\ orders = <<>>
    /\ order_items = <<>>
    /\ co = Idle
    /\ cb = NoCallbacks
    /\ users = [u \in UserIds |-> User(FALSE)]
    /\ tables = {}
    /\ ca = [w \in AddWorkers |-> NotAdding]
    /\ rq = NoRequests
    /\ session = NoSessions
    /\ reservations = {}
    /\ last = NoRequest

NextCartRace ==
    \/ \E w \in AddWorkers, u \in UserIds, p \in {1} :
          /\ QuantityOf(cart_items, u, p) < MaxAdds
          /\ add_to_cart_read(w, u, p)
    \/ \E w \in AddWorkers : add_to_cart_commit(w)

SpecCartRace == InitCartRace /\ [][NextCartRace]_vars

-----------------------------------------------------------------------------
(* main.py: the admin console *)

\* current_user of a request without a session.
Anonymous == 0

\* @login_required: the caller has a session of an existing user.
login_required(c) == c # Anonymous

\* What the login manager answers for a caller without a session: the
\* redirect to the login page.
Unauthorized(op, c, input) ==
    Response(op, "unauthorized", c, input, None, "redirect:login", 302)

\* admin_required: "not current_user.is_authenticated or not
\* current_user.is_admin" aborts with 403.
admin_required(c) == c # Anonymous /\ users[c].is_admin

\* The response of an admin route to a caller its decorators stop:
\* @login_required is the outer decorator and runs first.
Stopped(op, c, input) ==
    IF ~login_required(c) THEN Unauthorized(op, c, input)
    ELSE Response(op, "abort", c, input, None, "Forbidden", 403)

Admitted(c) == login_required(c) /\ admin_required(c)

\* The admin pages that only read: /admin, /admin/orders, /admin/products,
\* /admin/users, /admin/tables.
AdminPages ==
    {"admin_dashboard", "admin_orders", "admin_products", "admin_users",
     "admin_tables"}

admin_page(c, page) ==
    /\ page \in AdminPages
    /\ last' = IF Admitted(c)
               THEN Response(page, "done", c, None, None, "render", 200)
               ELSE Stopped(page, c, None)
    /\ UNCHANGED <<users, tables, ca, rq, session, reservations,
                   LIQPAY_PRIVATE_KEY,
                   products, product_ratings, cart_items,
                   orders, order_items, co, cb>>

\* OrderStatusForm: the status is one of the choices and the token validates.
OrderStatusFormValid(form) == form.form_valid /\ form.status \in OrderStatus

update_order_status_drops_items(order_id, status) ==
    <<[orders EXCEPT ![order_id].status = status],
      SelectSeq(order_items, LAMBDA i : i.order_id # order_id)>>

\* crud.update_order_status: the orders and order_items tables after it.
update_order_status(order_id, status) ==
    <<[orders EXCEPT ![order_id].status = status], order_items>>

\* POST /admin/orders/<order_id>/status
admin_change_order_status(c, order_id, form) ==
    /\ LET op == "admin_change_order_status"
           request == [status |-> form.status, arg |-> order_id,
                       form_valid |-> form.form_valid]
       IN IF ~Admitted(c)
          THEN /\ last' = Stopped(op, c, request)
               /\ UNCHANGED <<orders, order_items>>
          ELSE IF order_id \notin DOMAIN orders
          THEN /\ last' = Response(op, "abort", c, request, None, "Not Found", 404)
               /\ UNCHANGED <<orders, order_items>>
          ELSE IF OrderStatusFormValid(form)
          THEN /\ orders' = update_order_status(order_id, form.status)[1]
               /\ order_items' = update_order_status(order_id, form.status)[2]
               /\ last' = Response(op, "done", c, request, "status_updated",
                                   "redirect:admin_orders", 302)
          ELSE /\ last' = Response(op, "done", c, request, "bad_status",
                                   "redirect:admin_orders", 302)
               /\ UNCHANGED <<orders, order_items>>
    /\ UNCHANGED <<users, tables, ca, rq, session, reservations,
                   LIQPAY_PRIVATE_KEY,
                   products, product_ratings, cart_items, co, cb>>

\* utils.ALLOWED_EXT
ALLOWED_EXT ==
    { <<"p", "n", "g">>, <<"j", "p", "g">>, <<"j", "p", "e", "g">>,
      <<"w", "e", "b", "p">> }

\* "." in filename
HasPeriod(filename) == \E k \in DOMAIN filename : filename[k] = "."

\* filename.rsplit(".", 1)[1] of a filename with a period: the text after
\* the last period.
RECURSIVE AfterLastPeriod(_)
AfterLastPeriod(filename) ==
    IF filename[Len(filename)] = "." THEN <<>>
    ELSE Append(AfterLastPeriod(SubSeq(filename, 1, Len(filename) - 1)),
                filename[Len(filename)])

\* utils.allowed_file
allowed_file(filename) ==
    HasPeriod(filename) /\ Lower(AfterLastPeriod(filename)) \in ALLOWED_EXT

\* The image field of a request without a file.
NoFile == <<>>

\* str.endswith
EndsWith(s, suffix) ==
    /\ Len(s) >= Len(suffix)
    /\ SubSeq(s, Len(s) - Len(suffix) + 1, Len(s)) = suffix

\* FileAllowed(["jpg", "jpeg", "png", "webp"]) of AddProductForm.image: without
\* a file it passes; with one, the lower-cased filename has to end with a
\* period and one of the extensions.
FileAllowed(filename) ==
    \/ filename = NoFile
    \/ \E x \in { <<"j", "p", "g">>, <<"j", "p", "e", "g">>, <<"p", "n", "g">>,
                   <<"w", "e", "b", "p">> } :
          EndsWith(Lower(filename), <<".">> \o x)

\* AddProductForm: name required, price required and at least 0.01 (the
\* name is modelled by its presence, the price is in hundredths), and the
\* uploaded file, if any, of an allowed extension.
AddProductFormValid(form) ==
    /\ form.form_valid
    /\ form.name # ""
    /\ form.price >= 1
    /\ FileAllowed(form.image)

\* crud.add_product: the new row gets the next id, rating 0, is_available
\* true and the column default is_deleted false.
add_product(name, price, image_url) ==
    Append(products, [name |-> name, price |-> price, rating |-> 0,
                      is_available |-> TRUE, is_deleted |-> FALSE,
                      image_url |-> image_url])

\* uuid.uuid4().hex: a token no stored file has (here the next in a row).
Uuid4 == Len(products) + 1

\* Lines 468-476 of admin_add_product: the path of the saved upload when there
\* is a file that allowed_file accepts; else the form's URL or None.
ImageOf(form) ==
    IF form.image # NoFile /\ allowed_file(form.image)
    THEN ImagePath(Uuid4, Lower(AfterLastPeriod(form.image)))
    ELSE IF form.image_url # "" THEN ImageUrl(form.image_url)
    ELSE NoImage

\* POST /admin/products/add
admin_add_product(c, form) ==
    /\ LET op == "admin_add_product" IN
       IF ~Admitted(c)
       THEN /\ last' = Stopped(op, c, form)
            /\ UNCHANGED products
       ELSE IF AddProductFormValid(form)
       THEN /\ products' = add_product(form.name, form.price, ImageOf(form))
            /\ last' = Response(op, "done", c, form, "product_added",
                                "redirect:admin_products", 302)
       ELSE /\ last' = Response(op, "done", c, form, "product_error",
                                "redirect:admin_products", 302)
            /\ UNCHANGED products
    /\ UNCHANGED <<users, tables, ca, rq, session, reservations,
                   LIQPAY_PRIVATE_KEY,
                   product_ratings, cart_items, orders, order_items, co, cb>>

\* crud.toggle_product_deleted
toggle_product_deleted(product_id) ==
    [products EXCEPT ![product_id].is_deleted = ~products[product_id].is_deleted]

\* POST /admin/products/<product_id>/toggle
admin_toggle_product(c, product_id, form_valid) ==
    /\ LET op == "admin_toggle_product"
           request == CartRequest(product_id, form_valid)
       IN IF ~Admitted(c)
          THEN /\ last' = Stopped(op, c, request)
               /\ UNCHANGED products
          ELSE IF ~form_valid
          THEN /\ last' = Response(op, "done", c, request, None,
                                   "redirect:admin_products", 302)
               /\ UNCHANGED products
          ELSE IF product_id \notin DOMAIN products
          THEN /\ last' = Response(op, "abort", c, request, None, "Not Found", 404)
               /\ UNCHANGED products
          ELSE /\ products' = toggle_product_deleted(product_id)
               /\ last' = Response(op, "done", c, request, "product_toggled",
                                   "redirect:admin_products", 302)
    /\ UNCHANGED <<users, tables, ca, rq, session, reservations,
                   LIQPAY_PRIVATE_KEY,
                   product_ratings, cart_items, orders, order_items, co, cb>>

\* Line 523: "user_id == current_user.id".
IsSelf_never(user_id, c) == FALSE

IsSelf(user_id, c) == user_id = c

\* crud.toggle_user_admin
toggle_user_admin(user_id) ==
    [users EXCEPT ![user_id].is_admin = ~users[user_id].is_admin]

\* POST /admin/users/<user_id>/toggle-admin
admin_toggle_user_admin(c, user_id, form_valid) ==
    /\ LET op == "admin_toggle_user_admin"
           request == CartRequest(user_id, form_valid)
       IN IF ~Admitted(c)
          THEN /\ last' = Stopped(op, c, request)
               /\ UNCHANGED users
          ELSE IF ~form_valid
          THEN /\ last' = Response(op, "done", c, request, None,
                                   "redirect:admin_users", 302)
               /\ UNCHANGED users
          ELSE IF IsSelf(user_id, c)
          THEN /\ last' = Response(op, "done", c, request, "own_role_warning",
                                   "redirect:admin_users", 302)
               /\ UNCHANGED users
          ELSE IF user_id \notin DOMAIN users
          THEN /\ last' = Response(op, "abort", c, request, None, "Not Found", 404)
               /\ UNCHANGED users
          ELSE /\ users' = toggle_user_admin(user_id)
               /\ last' = Response(op, "done", c, request, "role_changed",
                                   "redirect:admin_users", 302)
    /\ UNCHANGED <<tables, ca, rq, session, reservations,
                   LIQPAY_PRIVATE_KEY,
                   products, product_ratings, cart_items,
                   orders, order_items, co, cb>>

-----------------------------------------------------------------------------
(* crud.py and main.py: the table layout *)

SEATS_BY_TYPE == [round |-> 2, square |-> 4]

DEFAULT_SEATS == 6

SeatsFor_unknown_as_square(type) ==
    IF type \in DOMAIN SEATS_BY_TYPE THEN SEATS_BY_TYPE[type] ELSE 4

\* SEATS_BY_TYPE.get(data["type"], DEFAULT_SEATS)
SeatsFor(type) ==
    IF type \in DOMAIN SEATS_BY_TYPE THEN SEATS_BY_TYPE[type] ELSE DEFAULT_SEATS

\* The Table rows replace_all_tables adds to the session for a list of
\* entries; the emptied table numbers its rows from 1.
NewTables(tables_data) ==
    { [is_available |-> TRUE,
       x |-> tables_data[k].x,
       y |-> tables_data[k].y,
       id |-> k,
       type |-> tables_data[k].type,
       number |-> tables_data[k].number,
       seats |-> SeatsFor(tables_data[k].type)] : k \in DOMAIN tables_data }

\* Table.number is unique: the rows may be committed.
UniqueNumbers(tables_data) ==
    \A j, k \in DOMAIN tables_data :
        tables_data[j].number = tables_data[k].number => j = k

replace_all_tables_delete_committed(tables_data) ==
    IF UniqueNumbers(tables_data)
    THEN [tables |-> NewTables(tables_data), raised |-> FALSE]
    ELSE [tables |-> {}, raised |-> TRUE]

\* crud.replace_all_tables followed, when it raises, by the crud.rollback of
\* admin_save_tables: the bulk delete and the inserts are one transaction,
\* committed by the commit of line 270 or not at all.
replace_all_tables(tables_data) ==
    IF UniqueNumbers(tables_data)
    THEN [tables |-> NewTables(tables_data), raised |-> FALSE]
    ELSE [tables |-> tables, raised |-> TRUE]

\* The body of a layout request: no JSON (or JSON that is falsy, such as
\* {}), or an object with a "tables" list.
NoJson == [tables |-> <<>>, kind |-> "none"]
Layout(tables_data) == [tables |-> tables_data, kind |-> "object"]

required_fields == {"number", "type", "x", "y"}

\* POST /admin/tables/save
admin_save_tables(c, data) ==
    /\ LET op == "admin_save_tables" IN
       IF ~Admitted(c)
       THEN /\ last' = Stopped(op, c, data)
            /\ UNCHANGED tables
       ELSE IF data.kind = "none"
       THEN /\ last' = Response(op, "done", c, data, None, "Invalid JSON", 400)
            /\ UNCHANGED tables
       ELSE IF \E k \in DOMAIN data.tables :
                  ~(required_fields \subseteq data.tables[k].keys)
       THEN /\ last' = Response(op, "done", c, data, None,
                                "Missing table fields", 400)
            /\ UNCHANGED tables
       ELSE LET r == replace_all_tables(data.tables) IN
            /\ tables' = r.tables
            /\ last' = IF r.raised
                       THEN Response(op, "rollback", c, data, None,
                                     "Internal error", 500)
                       ELSE Response(op, "commit", c, data, None,
                                     "success", 200)
    /\ UNCHANGED <<users, ca, rq, session, reservations,
                   LIQPAY_PRIVATE_KEY,
                   products, product_ratings, cart_items,
                   orders, order_items, co, cb>>

\* crud.get_table
get_table(table_id) == {t \in tables : t.id = table_id}

\* The body of a position request: no JSON, or an object with id, x and y;
\* numeric tells whether int() accepts the coordinates.
Position(table_id, numeric, x, y) ==
    [kind |-> "object", x |-> x, y |-> y, id |-> table_id, numeric |-> numeric]

NoPosition == [kind |-> "none", x |-> 0, y |-> 0, id |-> 0, numeric |-> FALSE]

\* POST /admin/tables/update/position
update_table_position(c, data) ==
    /\ LET op == "update_table_position" IN
       IF ~Admitted(c)
       THEN /\ last' = Stopped(op, c, data)
            /\ UNCHANGED tables
       ELSE IF data.kind = "none"
       THEN /\ last' = Response(op, "done", c, data, None, "Invalid JSON", 400)
            /\ UNCHANGED tables
       ELSE IF ~data.numeric
       THEN /\ last' = Response(op, "done", c, data, None,
                                "Invalid coordinates", 400)
            /\ UNCHANGED tables
       ELSE IF get_table(data.id) = {}
       THEN /\ last' = Response(op, "done", c, data, None,
                                "Table not found", 404)
            /\ UNCHANGED tables
       ELSE LET table == CHOOSE t \in get_table(data.id) : TRUE IN
            /\ tables' = (tables \ {table})
                            \cup {[table EXCEPT !.x = data.x, !.y = data.y]}
            /\ last' = Response(op, "commit", c, data, None, "ok", 200)
    /\ UNCHANGED <<users, ca, rq, session, reservations,
                   LIQPAY_PRIVATE_KEY,
                   products, product_ratings, cart_items,
                   orders, order_items, co, cb>>

-----------------------------------------------------------------------------
(* main.py: the public menu *)

\* The ids of a product table, newest first.
RECURSIVE NewestFirst(_)
NewestFirst(n) == IF n = 0 THEN <<>> ELSE <<n>> \o NewestFirst(n - 1)

\* crud.get_all_products: every row, ordered by created_at descending.
get_all_products == NewestFirst(Len(products))

\* GET /menu, open to every caller: the products handed to menu.html.
menu(c) ==
    /\ last' = Response("menu", "done", c, None, None,
                        [products |-> get_all_products], 200)
    /\ UNCHANGED <<users, tables, ca, rq, session, reservations,
                   LIQPAY_PRIVATE_KEY,
                   products, product_ratings, cart_items,
                   orders, order_items, co, cb>>

-----------------------------------------------------------------------------
(* The admin console and the menu, one request at a time: user 1 is an
   admin, users 2 and 3 are customers, and one order has been placed *)

Callers == {Anonymous, 1, 2, 3}

AddProductFormInputs ==
    { [name |-> "deruny", price |-> 700, image_url |-> "",
       form_valid |-> TRUE, image |-> NoFile],
      [name |-> "deruny", price |-> 0, image_url |-> "",
       form_valid |-> TRUE, image |-> NoFile],
      [name |-> "deruny", price |-> 700, image_url |-> "",
       form_valid |-> FALSE, image |-> NoFile] }

\* A table of the floor plan as the layout editor submits it.
TableEntry(number, type) ==
    [x |-> 10 * number, y |-> 20, type |-> type,
     number |-> number, keys |-> required_fields]

InitAdmin ==
    /\ LIQPAY_PRIVATE_KEY = KeyText(Key1)
    /\ users = <<User(TRUE), User(FALSE), User(FALSE)>>
    /\ tables = {}
    /\ products = [i \in ProductIds |-> Product(i)]
    /\ product_ratings = {}
    /\ cart_items = {}
    /\ orders = <<SeedOrder(1)>>
    /\ order_items = <<SeedOrderItem(1)>>
    /\ co = Idle
    /\ cb = NoCallbacks
    /\ ca = NoAdds
    /\ rq = NoRequests
    /\ session = NoSessions
    /\ reservations = {}
    /\ last = NoRequest

NextAdmin ==
    \/ \E c \in Callers, page \in AdminPages : admin_page(c, page)
    \/ \E c \in Callers, o \in {1, 2} :
          admin_change_order_status(c, o, [status |-> "cooking", form_valid |-> TRUE])
    \/ \E c \in Callers, form \in AddProductFormInputs :
          /\ Len(products) < MaxProducts
          /\ admin_add_product(c, form)
    \/ \E c \in Callers, p \in {1, MaxProducts + 1}, form_valid \in BOOLEAN :
          admin_toggle_product(c, p, form_valid)
    \/ \E c \in Callers, u \in DOMAIN users \cup {Len(users) + 1},
          form_valid \in BOOLEAN : admin_toggle_user_admin(c, u, form_valid)
    \/ \E c \in Callers :
          admin_save_tables(c, Layout(<<TableEntry(1, "round")>>))
    \/ \E c \in Callers : update_table_position(c, Position(1, TRUE, 7, 7))
    \/ \E c \in Callers : menu(c)

SpecAdmin == InitAdmin /\ [][NextAdmin]_vars

-----------------------------------------------------------------------------
(* The table layout editor: user 1 is an admin, user 2 a customer *)

TableTypes == {"round", "square", "lounge"}

TableEntries ==
    { TableEntry(1, t) : t \in TableTypes } \cup
    { TableEntry(2, "lounge") } \cup
    { [TableEntry(2, "round") EXCEPT !.keys = {"number", "type", "x"}] }

\* The lists of at most n entries.
ListsUpTo(n) == UNION { [1..k -> TableEntries] : k \in 0..n }

PositionInputs ==
    { Position(1, TRUE, 7, 7), Position(MaxTables + 1, TRUE, 7, 7),
      Position(1, FALSE, 0, 0), NoPosition }

InitTables ==
    /\ LIQPAY_PRIVATE_KEY = KeyText(Key1)
    /\ users = <<User(TRUE), User(FALSE)>>
    /\ tables = {}
    /\ products = [i \in ProductIds |-> Product(i)]
    /\ product_ratings = {}
    /\ cart_items = {}
    /\ orders = <<>>
    /\ order_items = <<>>
    /\ co = Idle
    /\ cb = NoCallbacks
    /\ ca = NoAdds
    /\ rq = NoRequests
    /\ session = NoSessions
    /\ reservations = {}
    /\ last = NoRequest

NextTables ==
    \/ \E c \in {1, 2}, l \in ListsUpTo(MaxTables) :
          admin_save_tables(c, Layout(l))
    \/ \E c \in {1, 2} : admin_save_tables(c, NoJson)
    \/ \E c \in {1, 2}, d \in PositionInputs : update_table_position(c, d)

SpecTables == InitTables /\ [][NextTables]_vars

-----------------------------------------------------------------------------
(* Placed orders under the operations that follow them: two orders have
   been placed; admin 1 works the console, the gateway calls back, and
   customer 2 fills a cart *)

\* A correctly signed callback of the gateway for order k.
GatewayCallbacks ==
    { B64(JsonObject(JsonStr(OrderRef(k)), st)) :
         k \in {1, 2}, st \in {"success", "failure"} }

InitOrders ==
    /\ LIQPAY_PRIVATE_KEY = KeyText(Key1)
    /\ users = <<User(TRUE), User(FALSE)>>
    /\ tables = {}
    /\ products = [i \in ProductIds |-> Product(i)]
    /\ product_ratings = {}
    /\ cart_items = {}
    /\ orders = <<SeedOrder(1), SeedOrder(2)>>
    /\ order_items = <<SeedOrderItem(1), SeedOrderItem(2)>>
    /\ co = Idle
    /\ cb = NoCallbacks
    /\ ca = NoAdds
    /\ rq = NoRequests
    /\ session = NoSessions
    /\ reservations = {}
    /\ last = NoRequest

NextOrders ==
    \/ \E o \in {1, 2}, status \in {"cooking", "bogus"} :
          admin_change_order_status(1, o, [status |-> status, form_valid |-> TRUE])
    \/ \E d \in GatewayCallbacks :
          liqpay_order_callback(d, Sha1B64(Concat3(Key1, d, Key1)))
    \/ /\ Len(products) < MaxProducts
       /\ admin_add_product(1, [name |-> "deruny", price |-> 700,
                                image_url |-> "",
                                form_valid |-> TRUE, image |-> NoFile])
    \/ admin_toggle_product(1, 1, TRUE)
    \/ /\ ~ProductMissing(1) => AddExplored(2, 1)
       /\ add_to_cart(2, 1, TRUE)
    \/ \E item_id \in 1..MaxCartId :
          update_cart(2, item_id, [quantity |-> QuantityMax, form_valid |-> TRUE])
    \/ \E item_id \in 1..MaxCartId : remove_from_cart(2, item_id, TRUE)

SpecOrders == InitOrders /\ [][NextOrders]_vars

-----------------------------------------------------------------------------
(* main.py: registration and login.  Texts are sequences of characters *)

Normalized_strip_only(email) == Strip(email)

\* Lines 87 and 106: form.email.data.strip().lower()
Normalized(email) == Lower(Strip(email))

\* werkzeug's generate_password_hash: a salted hash is modelled by the
\* password that was hashed, so check_password_hash accepts exactly it.
generate_password_hash(password) == [kind |-> "pwhash", of |-> password]

check_password_hash(pwhash, password) == pwhash.of = password

\* crud.create_user: the new User row; is_admin defaults to false.
create_user(email, password_hash) ==
    [is_admin |-> FALSE, is_active |-> TRUE,
     email |-> email, password |-> password_hash]

\* crud.get_user_by_email: the ids of the rows with exactly this email.
get_user_by_email(email) == {u \in DOMAIN users : users[u].email = email}

\* Email(): a text with an @ and no blank is taken as an email address.
EmailShape(email) ==
    /\ \E k \in DOMAIN email : email[k] = "@"
    /\ \A k \in DOMAIN email : email[k] # " "

\* RegisterForm and LoginForm: email required and of email shape, password
\* required and of at least 6 characters, and a valid token.
RegisterFormValid(form) ==
    /\ form.form_valid
    /\ form.email # <<>>
    /\ EmailShape(form.email)
    /\ form.password # <<>>
    /\ Len(form.password) >= 6

\* No registration in flight at a worker.
NotRegistering == [pc |-> "idle", email |-> <<>>, password |-> <<>>]

\* Lines 85-91 of register by a caller without a session: validate the form
\* and look the normalized email up.
register_check(w, form) ==
    /\ rq[w].pc = "idle"
    /\ IF ~RegisterFormValid(form)
       THEN /\ last' = Response("register", "done", Anonymous, form, None,
                                "render:register", 200)
            /\ UNCHANGED rq
       ELSE IF get_user_by_email(Normalized(form.email)) # {}
       THEN /\ last' = Response("register", "done", Anonymous, form, "email_exists",
                                "redirect:register", 302)
            /\ UNCHANGED rq
       ELSE /\ rq' = [rq EXCEPT ![w] =
                        [pc |-> "create",
                         email |-> Normalized(form.email),
                         password |-> form.password]]
            /\ last' = Response("register", "check", Anonymous, form, None, None, 0)
    /\ UNCHANGED <<users, tables, ca, session, reservations,
                   LIQPAY_PRIVATE_KEY, products, product_ratings, cart_items,
                   orders, order_items, co, cb>>

\* Lines 93-95: crud.create_user commits the row; User.email is unique, so
\* the commit raises IntegrityError when the email was committed meanwhile
\* and the request ends with a 500 response.
register_commit(w) ==
    /\ rq[w].pc = "create"
    /\ LET form == [form_valid |-> TRUE, email |-> rq[w].email,
                    password |-> rq[w].password]
       IN IF get_user_by_email(rq[w].email) # {}
          THEN /\ last' = Response("register", "rollback", Anonymous, form, None,
                                   "Internal Server Error", 500)
               /\ UNCHANGED users
          ELSE /\ users' = Append(users,
                              create_user(rq[w].email,
                                          generate_password_hash(rq[w].password)))
               /\ last' = Response("register", "commit", Anonymous, form,
                                   "registered", "redirect:login", 302)
    /\ rq' = [rq EXCEPT ![w] = NotRegistering]
    /\ UNCHANGED <<tables, ca, session, reservations,
                   LIQPAY_PRIVATE_KEY, products, product_ratings, cart_items,
                   orders, order_items, co, cb>>

-----------------------------------------------------------------------------
(* Registrations handled concurrently by two workers; a@x is on file *)

RegisterWorkers == {1, 2}

Secret == <<"s", "e", "c", "r", "e", "t">>

RegisterFormInputs ==
    { [form_valid |-> TRUE, email |-> e, password |-> Secret] :
         e \in { <<"a", "@", "x">>, <<"A", "@", "X">>, <<"b", "@", "x">>,
                 <<"B", "@", "x">>, <<"c", "@", "x">>, <<" ", "b", "@", "x">> } }
      \cup { [form_valid |-> TRUE, email |-> <<"b", "@", "x">>,
              password |-> <<"s", "e", "c">>],
             [form_valid |-> FALSE, email |-> <<"b", "@", "x">>,
              password |-> Secret] }

InitRegister ==
    /\ LIQPAY_PRIVATE_KEY = KeyText(Key1)
    /\ users = <<create_user(<<"a", "@", "x">>, generate_password_hash(Secret))>>
    /\ tables = {}
    /\ reservations = {}
    /\ products = [i \in ProductIds |-> Product(i)]
    /\ product_ratings = {}
    /\ cart_items = {}
    /\ orders = <<>>
    /\ order_items = <<>>
    /\ co = Idle
    /\ cb = NoCallbacks
    /\ ca = NoAdds
    /\ rq = [w \in RegisterWorkers |-> NotRegistering]
    /\ session = NoSessions
    /\ last = NoRequest

NextRegister ==
    \/ \E w \in RegisterWorkers, form \in RegisterFormInputs :
          register_check(w, form)
    \/ \E w \in RegisterWorkers : register_commit(w)

SpecRegister == InitRegister /\ [][NextRegister]_vars

-----------------------------------------------------------------------------
(* main.py and crud.py: reservations *)

\* ReservationForm: table id required, guests one of "1".."6"; form_valid
\* stands for the token, the date-time and the phone being valid.
ReservationFormValid(form) ==
    /\ form.form_valid
    /\ form.table_id # 0
    /\ form.guests \in 1..6

\* crud.create_reservation: the new row, with status "active".
crud_create_reservation(user_id, table_id, guests) ==
    [id |-> Cardinality(reservations) + 1, user_id |-> user_id,
     status |-> "active", table_id |-> table_id, guests |-> guests]

set_table_availability_all(table, is_available) ==
    { [t EXCEPT !.is_available = is_available] : t \in tables }

\* crud.set_table_availability: the tables table after it.
set_table_availability(table, is_available) ==
    (tables \ {table}) \cup {[table EXCEPT !.is_available = is_available]}

\* POST /reservation/create
create_reservation(c, form) ==
    /\ LET op == "create_reservation" IN
       IF ~login_required(c)
       THEN /\ last' = Unauthorized(op, c, form)
            /\ UNCHANGED <<tables, reservations>>
       ELSE IF ~ReservationFormValid(form)
       THEN /\ last' = Response(op, "done", c, form, "reservation_error",
                                "redirect:book", 302)
            /\ UNCHANGED <<tables, reservations>>
       ELSE IF get_table(form.table_id) = {}
       THEN /\ last' = Response(op, "done", c, form, "table_not_found",
                                "redirect:book", 302)
            /\ UNCHANGED <<tables, reservations>>
       ELSE LET table == CHOOSE t \in get_table(form.table_id) : TRUE IN
            /\ reservations' = reservations \cup
                  {crud_create_reservation(c, table.id, form.guests)}
            /\ tables' = set_table_availability(table, FALSE)
            /\ last' = Response(op, "commit", c, form, "reserved",
                                "redirect:profile", 302)
    /\ UNCHANGED <<users, ca, rq, session,
                   LIQPAY_PRIVATE_KEY, products, product_ratings, cart_items,
                   orders, order_items, co, cb>>

-----------------------------------------------------------------------------
(* Reservations, one request at a time: customers 1 and 2 and a floor plan
   of two tables *)

\* The reservations made in one behaviour.
MaxReservations == 3

ReservationFormInputs ==
    { [form_valid |-> TRUE, table_id |-> t, guests |-> 2] : t \in {1, 2, 3} }
       \cup { [form_valid |-> TRUE, table_id |-> 1, guests |-> 7],
              [form_valid |-> TRUE, table_id |-> 0, guests |-> 2],
              [form_valid |-> FALSE, table_id |-> 1, guests |-> 2] }

InitReservation ==
    /\ LIQPAY_PRIVATE_KEY = KeyText(Key1)
    /\ users = <<User(FALSE), User(FALSE)>>
    /\ tables = NewTables(<<TableEntry(1, "round"), TableEntry(2, "lounge")>>)
    /\ reservations = {}
    /\ products = [i \in ProductIds |-> Product(i)]
    /\ product_ratings = {}
    /\ cart_items = {}
    /\ orders = <<>>
    /\ order_items = <<>>
    /\ co = Idle
    /\ cb = NoCallbacks
    /\ ca = NoAdds
    /\ rq = NoRequests
    /\ session = NoSessions
    /\ last = NoRequest

NextReservation ==
    \E c \in {Anonymous, 1, 2}, form \in ReservationFormInputs :
       /\ Cardinality(reservations) < MaxReservations
       /\ create_reservation(c, form)

SpecReservation == InitReservation /\ [][NextReservation]_vars

-----------------------------------------------------------------------------
(* main.py: sessions and the customer pages behind @login_required *)

\* A request that writes nothing: every variable but last stays.
NoWrite ==
    UNCHANGED <<LIQPAY_PRIVATE_KEY, users, tables, reservations, products,
                product_ratings, cart_items, orders, order_items, co, cb, ca,
                rq, session>>

login_required_everyone(c, op, input, view) == view

\* @login_required in front of a view: for a caller without a session the
\* login manager answers and the view does not run.
login_required_view(c, op, input, view) ==
    IF login_required(c) THEN view
    ELSE last' = Unauthorized(op, c, input) /\ NoWrite

\* LoginForm: the same fields and validators as RegisterForm.
LoginFormValid(form) ==
    /\ form.form_valid
    /\ form.email # <<>>
    /\ EmailShape(form.email)
    /\ form.password # <<>>
    /\ Len(form.password) >= 6

\* The login request of a browser.
LoginRequest(b, form) ==
    [form_valid |-> form.form_valid, email |-> form.email,
     password |-> form.password, browser |-> b]

\* The user current_user stands for after login: the row
\* get_user_by_email finds, when its hash matches the password.
Authenticates(u, form) ==
    /\ u \in get_user_by_email(Normalized(form.email))
    /\ check_password_hash(users[u].password, form.password)

\* GET/POST /login from browser b
login(b, form) ==
    /\ LET c == session[b]
           request == LoginRequest(b, form)
       IN IF c # Anonymous
          THEN /\ last' = Response("login", "done", c, request, None,
                                   "redirect:menu", 302)
               /\ UNCHANGED session
          ELSE IF ~LoginFormValid(form)
          THEN /\ last' = Response("login", "done", c, request, None,
                                   "render:login", 200)
               /\ UNCHANGED session
          ELSE IF \E u \in DOMAIN users : Authenticates(u, form)
          THEN LET u == CHOOSE u \in DOMAIN users : Authenticates(u, form) IN
               /\ session' = [session EXCEPT ![b] = u]
               /\ last' = Response("login", "login_user", c, request,
                                   "logged_in", "redirect:menu", 302)
          ELSE /\ last' = Response("login", "done", c, request,
                                   "bad_credentials", "render:login", 200)
               /\ UNCHANGED session
    /\ UNCHANGED <<users, tables, ca, rq, reservations,
                   LIQPAY_PRIVATE_KEY, products, product_ratings, cart_items,
                   orders, order_items, co, cb>>

\* GET /logout from browser b
logout(b) ==
    /\ LET c == session[b] IN
       IF ~login_required(c)
       THEN /\ last' = Unauthorized("logout", c, [browser |-> b])
            /\ UNCHANGED session
       ELSE /\ session' = [session EXCEPT ![b] = Anonymous]
            /\ last' = Response("logout", "logout_user", c, [browser |-> b],
                                None, "redirect:menu", 302)
    /\ UNCHANGED <<users, tables, ca, rq, reservations,
                   LIQPAY_PRIVATE_KEY, products, product_ratings, cart_items,
                   orders, order_items, co, cb>>

\* The customer pages that only read: /profile and /cart.
CustomerPages == {"profile", "cart"}

customer_page(c, page) ==
    /\ page \in CustomerPages
    /\ last' = IF login_required(c)
               THEN Response(page, "done", c, None, None, "render", 200)
               ELSE Unauthorized(page, c, None)
    /\ NoWrite

\* RatingForm: the rating is required and between 1 and 5 (in tenths here).
RatingFormValid(form) ==
    form.form_valid /\ form.rating >= 10 /\ form.rating <= 50

\* POST /position/<product_id>/rating; the answer of a saved rating is that
\* of crud.add_or_update_rating.
add_rating(c, product_id, form) ==
    LET op == "add_rating"
        request == [rating |-> form.rating, arg |-> product_id,
                    form_valid |-> form.form_valid]
    IN IF ~login_required(c)
       THEN last' = Unauthorized(op, c, request) /\ NoWrite
       ELSE IF product_id \notin DOMAIN products
                 \/ products[product_id].is_deleted
       THEN /\ last' = Response(op, "abort", c, request, None,
                                "Not Found", 404)
            /\ NoWrite
       ELSE IF RatingFormValid(form)
       THEN add_or_update_rating(product_id, c, form.rating)
       ELSE /\ last' = Response(op, "done", c, request, "rating_invalid",
                                "redirect:position", 302)
            /\ NoWrite

-----------------------------------------------------------------------------
(* main.py: the payment result and order-success pages *)

\* GET /order_result/<order_id>
order_result(c, order_id) ==
    /\ LET op == "order_result"
           order == get_order(order_id)
       IN last' =
             IF ~login_required(c) THEN Unauthorized(op, c, order_id)
             ELSE IF order_id \notin DOMAIN orders
             THEN Response(op, "abort", c, order_id, None, "Not Found", 404)
             ELSE IF order.user_id # c
             THEN Response(op, "abort", c, order_id, None, "Forbidden", 403)
             ELSE IF order.payment_status = "paid"
             THEN Response(op, "done", c, order_id, None,
                           "redirect:order_success", 302)
             ELSE IF order.payment_status = "failed"
             THEN Response(op, "done", c, order_id, "payment_failed",
                           "redirect:profile", 302)
             ELSE Response(op, "done", c, order_id, "payment_processing",
                           "redirect:profile", 302)
    /\ NoWrite

\* GET /order_success/<order_id>
order_success(c, order_id) ==
    /\ LET op == "order_success"
           order == get_order(order_id)
       IN last' =
             IF ~login_required(c) THEN Unauthorized(op, c, order_id)
             ELSE IF order_id \notin DOMAIN orders
             THEN Response(op, "abort", c, order_id, None, "Not Found", 404)
             ELSE IF order.user_id # c
             THEN Response(op, "abort", c, order_id, None, "Forbidden", 403)
             ELSE Response(op, "done", c, order_id, None,
                           "render:order_success", 200)
    /\ NoWrite

-----------------------------------------------------------------------------
(* Two browsers and the customer pages: a@x and b@x are registered, user 1
   has placed order 1, the floor plan has one table *)

Browsers == {1, 2}

Hunter == <<"h", "u", "n", "t", "e", "r">>

LoginFormInputs ==
    { [form_valid |-> TRUE, email |-> <<"a", "@", "x">>, password |-> Secret],
      [form_valid |-> TRUE, email |-> <<"A", "@", "X">>, password |-> Secret],
      [form_valid |-> TRUE, email |-> <<"b", "@", "x">>, password |-> Hunter],
      [form_valid |-> TRUE, email |-> <<"b", "@", "x">>, password |-> Secret],
      [form_valid |-> TRUE, email |-> <<"c", "@", "x">>, password |-> Secret],
      [form_valid |-> FALSE, email |-> <<"a", "@", "x">>, password |-> Secret] }

InitSession ==
    /\ LIQPAY_PRIVATE_KEY = KeyText(Key1)
    /\ users = <<create_user(<<"a", "@", "x">>, generate_password_hash(Secret)),
                 create_user(<<"b", "@", "x">>, generate_password_hash(Hunter))>>
    /\ tables = NewTables(<<TableEntry(1, "round")>>)
    /\ reservations = {}
    /\ products = [i \in ProductIds |-> Product(i)]
    /\ product_ratings = {}
    /\ cart_items = {}
    /\ orders = <<SeedOrder(1)>>
    /\ order_items = <<SeedOrderItem(1)>>
    /\ co = Idle
    /\ cb = NoCallbacks
    /\ ca = NoAdds
    /\ rq = NoRequests
    /\ session = [b \in Browsers |-> Anonymous]
    /\ last = NoRequest

NextSession ==
    \/ \E b \in Browsers, form \in LoginFormInputs : login(b, form)
    \/ \E b \in Browsers : logout(b)
    \/ \E b \in Browsers, page \in CustomerPages :
          customer_page(session[b], page)
    \/ \E b \in Browsers :
          /\ login_required(session[b]) => UnitsAdded < 2
          /\ login_required_view(session[b], "add_to_cart",
                                 CartRequest(1, TRUE),
                                 add_to_cart(session[b], 1, TRUE))
    \/ \E b \in Browsers :
          login_required_view(session[b], "update_cart",
                              [quantity |-> 2, arg |-> 1, form_valid |-> TRUE],
                              update_cart(session[b], 1,
                                          [quantity |-> 2, form_valid |-> TRUE]))
    \/ \E b \in Browsers :
          login_required_view(session[b], "remove_from_cart",
                              CartRequest(1, TRUE),
                              remove_from_cart(session[b], 1, TRUE))
    \/ \E b \in Browsers :
          LET form == [order_type |-> "delivery", phone_len |-> 10] IN
          login_required_view(session[b], "create_order", form,
                              create_order_begin(session[b], form))
    \/ create_order_add_item
    \/ create_order_clear_cart
    \/ create_order_respond
    \/ \E b \in Browsers :
          add_rating(session[b], 1, [rating |-> 40, form_valid |-> TRUE])
    \/ \E b \in Browsers :
          /\ Cardinality(reservations) < MaxReservations - 2
          /\ create_reservation(session[b],
                                [form_valid |-> TRUE, table_id |-> 1, guests |-> 2])
    \/ \E b \in Browsers : order_result(session[b], 1)
    \/ \E b \in Browsers : order_success(session[b], 1)

SpecSession == InitSession /\ [][NextSession]_vars

-----------------------------------------------------------------------------
(* Product uploads: admin 1 adds products with and without an image file *)

Photo == <<"p", "h", "o", "t", "o">>

\* The filenames of the uploads: photo.JPG, photo.GIF, photo, photo.jpg.gif ...
UploadNames ==
    { Photo \o <<".">> \o ext :
         ext \in { <<"J", "P", "G">>, <<"j", "p", "g">>, <<"G", "I", "F">>,
                   <<"g", "i", "f">>, <<"p", "n", "g">>, <<"j", "p", "e", "g">>,
                   <<"w", "e", "b", "p">>, <<"j", "p">>, <<>>,
                   <<"j", "p", "g", ".", "g", "i", "f">>,
                   <<"g", "i", "f", ".", "J", "p", "g">> } }
       \cup {Photo, <<".", "p", "n", "g">>}

UploadFormInputs ==
    { [name |-> "deruny", price |-> 700, image_url |-> u,
       form_valid |-> TRUE, image |-> f] :
         f \in UploadNames \cup {NoFile}, u \in {"", "http://img"} }

InitUpload ==
    /\ LIQPAY_PRIVATE_KEY = KeyText(Key1)
    /\ users = <<User(TRUE), User(FALSE)>>
    /\ tables = {}
    /\ reservations = {}
    /\ products = <<Product(1)>>
    /\ product_ratings = {}
    /\ cart_items = {}
    /\ orders = <<>>
    /\ order_items = <<>>
    /\ co = Idle
    /\ cb = NoCallbacks
    /\ ca = NoAdds
    /\ rq = NoRequests
    /\ session = NoSessions
    /\ last = NoRequest

NextUpload ==
    \E form \in UploadFormInputs :
       /\ Len(products) < MaxProducts
       /\ admin_add_product(1, form)

SpecUpload == InitUpload /\ [][NextUpload]_vars

-----------------------------------------------------------------------------
(* Toggle-admin requests handled concurrently: each worker has its own
   session, which loads the caller and the target before it writes *)

ToggleWorkers == {1, 2}

\* No toggle-admin request in flight at a worker.
NotToggling == [is_admin |-> FALSE, user_id |-> 0, user |-> 0, pc |-> "idle"]

\* Lines 518-530 of admin_toggle_user_admin: the decorators check the caller
\* as loaded, the form validates, and crud.get_user_by_id loads the target.
admin_toggle_user_admin_read(w, c, user_id) ==
    /\ rq[w].pc = "idle"
    /\ LET op == "admin_toggle_user_admin"
           request == CartRequest(user_id, TRUE)
       IN IF ~Admitted(c)
          THEN /\ last' = Stopped(op, c, request)
               /\ UNCHANGED rq
          ELSE IF IsSelf(user_id, c)
          THEN /\ last' = Response(op, "done", c, request, "own_role_warning",
                                   "redirect:admin_users", 302)
               /\ UNCHANGED rq
          ELSE IF user_id \notin DOMAIN users
          THEN /\ last' = Response(op, "abort", c, request, None, "Not Found", 404)
               /\ UNCHANGED rq
          ELSE /\ rq' = [rq EXCEPT ![w] =
                           [is_admin |-> users[user_id].is_admin, user_id |-> user_id, user |-> c,
                            pc |-> "toggle"]]
               /\ last' = Response(op, "read", c, request, None, None, 0)
    /\ UNCHANGED <<users, tables, ca, session, reservations,
                   LIQPAY_PRIVATE_KEY, products, product_ratings, cart_items,
                   orders, order_items, co, cb>>

\* crud.toggle_user_admin: "user.is_admin = not user.is_admin" on the row as
\* loaded, written by primary key and committed.
admin_toggle_user_admin_commit(w) ==
    /\ rq[w].pc = "toggle"
    /\ users' = [users EXCEPT ![rq[w].user_id].is_admin = ~rq[w].is_admin]
    /\ rq' = [rq EXCEPT ![w] = NotToggling]
    /\ last' = Response("admin_toggle_user_admin", "commit", rq[w].user,
                        CartRequest(rq[w].user_id, TRUE), "role_changed",
                        "redirect:admin_users", 302)
    /\ UNCHANGED <<tables, ca, session, reservations,
                   LIQPAY_PRIVATE_KEY, products, product_ratings, cart_items,
                   orders, order_items, co, cb>>

InitToggleRace ==
    /\ LIQPAY_PRIVATE_KEY = KeyText(Key1)
    /\ users = <<User(TRUE), User(TRUE), User(FALSE)>>
    /\ tables = {}
    /\ reservations = {}
    /\ products = [i \in ProductIds |-> Product(i)]
    /\ product_ratings = {}
    /\ cart_items = {}
    /\ orders = <<>>
    /\ order_items = <<>>
    /\ co = Idle
    /\ cb = NoCallbacks
    /\ ca = NoAdds
    /\ rq = [w \in ToggleWorkers |-> NotToggling]
    /\ session = NoSessions
    /\ last = NoRequest

NextToggleRace ==
    \/ \E w \in ToggleWorkers, c \in DOMAIN users,
          user_id \in DOMAIN users \cup {Len(users) + 1} :
          admin_toggle_user_admin_read(w, c, user_id)
    \/ \E w \in ToggleWorkers : admin_toggle_user_admin_commit(w)

SpecToggleRace == InitToggleRace /\ [][NextToggleRace]_vars

-----------------------------------------------------------------------------
(* Order placement while the same customer's add-to-cart requests are
   handled by other workers *)

InitCheckoutRace ==
    /\ LIQPAY_PRIVATE_KEY = KeyText(Key1)
    /\ users = [u \in UserIds |-> User(FALSE)]
    /\ tables = {}
    /\ reservations = {}
    /\ products = [i \in ProductIds |-> Product(i)]
    /\ product_ratings = {}
    /\ cart_items = {}
    /\ orders = <<>>
    /\ order_items = <<>>
    /\ co = Idle
    /\ cb = NoCallbacks
    /\ ca = [w \in AddWorkers |-> NotAdding]
    /\ rq = NoRequests
    /\ session = NoSessions
    /\ last = NoRequest

NextCheckoutRace ==
    \/ \E w \in AddWorkers, p \in ProductIds :
          /\ UnitsAdded < MaxAdds
          /\ add_to_cart_read(w, 1, p)
    \/ \E w \in AddWorkers : add_to_cart_commit(w)
    \/ create_order_begin(1, [order_type |-> "delivery", phone_len |-> 10])
    \/ create_order_add_item
    \/ create_order_clear_cart
    \/ create_order_respond

SpecCheckoutRace == InitCheckoutRace /\ [][NextCheckoutRace]_vars

-----------------------------------------------------------------------------
(* The life of an order: customer 2 fills a cart and places orders, the
   gateway (or somebody without the key) calls back for order 1, admin 1
   toggles product 1 and changes the status of order 1, and both look at
   the result pages of order 1 *)

\* The callbacks for order 1, signed with the key or with another one.
LifecycleCallbacks ==
    { [signature |-> Sha1B64(Concat3(k, d, k)), data |-> d] :
         k \in {Key1, Key2},
         d \in { B64(JsonObject(JsonStr(OrderRef(1)), st)) :
                    st \in {"success", "failure"} } }

InitLifecycle ==
    /\ LIQPAY_PRIVATE_KEY = KeyText(Key1)
    /\ users = <<User(TRUE), User(FALSE)>>
    /\ tables = {}
    /\ reservations = {}
    /\ products = [i \in ProductIds |-> Product(i)]
    /\ product_ratings = {}
    /\ cart_items = {}
    /\ orders = <<>>
    /\ order_items = <<>>
    /\ co = Idle
    /\ cb = NoCallbacks
    /\ ca = NoAdds
    /\ rq = NoRequests
    /\ session = NoSessions
    /\ last = NoRequest

NextLifecycle ==
    \/ /\ ~ProductMissing(1) => UnitsAdded < MaxAdds
       /\ add_to_cart(2, 1, TRUE)
    \/ remove_from_cart(2, 1, TRUE)
    \/ admin_toggle_product(1, 1, TRUE)
    \/ create_order_begin(2, [order_type |-> "delivery", phone_len |-> 10])
    \/ create_order_add_item
    \/ create_order_clear_cart
    \/ create_order_respond
    \/ \E r \in LifecycleCallbacks : liqpay_order_callback(r.data, r.signature)
    \/ \E c \in {1, 2}, status \in OrderStatus :
          admin_change_order_status(c, 1, [status |-> status, form_valid |-> TRUE])
    \/ \E c \in {1, 2} : order_result(c, 1)
    \/ \E c \in {1, 2} : order_success(c, 1)

SpecLifecycle == InitLifecycle /\ [][NextLifecycle]_vars

-----------------------------------------------------------------------------
(* The shop: carts and order placement, one request at a time *)

Init ==
    /\ LIQPAY_PRIVATE_KEY \in {Unset, KeyText(Key1)}
    /\ products = [i \in ProductIds |-> Product(i)]
    /\ product_ratings = {}
    /\ cart_items = {}
    /\ orders = <<>>
    /\ order_items = <<>>
    /\ co = Idle
    /\ cb = NoCallbacks
    /\ users = [u \in UserIds |-> User(FALSE)]
    /\ tables = {}
    /\ ca = NoAdds
    /\ rq = NoRequests
    /\ session = NoSessions
    /\ reservations = {}
    /\ last = NoRequest

Next ==
    \/ \E u \in UserIds, p \in ProductIds \cup {Len(Catalogue) + 1},
          form_valid \in BOOLEAN :
          /\ (form_valid /\ ~ProductMissing(p)) => UnitsAdded < MaxAdds
          /\ add_to_cart(u, p, form_valid)
    \/ \E u \in UserIds, f \in OrderFormInputs : create_order_begin(u, f)
    \/ create_order_add_item
    \/ create_order_clear_cart
    \/ create_order_respond
    \/ create_order_fail

Spec == Init /\ [][Next]_vars

-----------------------------------------------------------------------------
(* Order placement *)

CartOf(rows, u) == {i \in rows : i.user_id = u}

\* The value of a set of cart rows at the menu's prices.
RECURSIVE LinesValue(_)
LinesValue(rows) ==
    IF rows = {} THEN 0
    ELSE LET r == CHOOSE x \in rows : TRUE
         IN products[r.product_id].price * r.quantity + LinesValue(rows \ {r})

\* The rows of a table that a step appended.
Appended(old, new) == SubSeq(new, Len(old) + 1, Len(new))

IsExtension(old, new) ==
    /\ Len(new) >= Len(old)
    /\ SubSeq(new, 1, Len(old)) = old

\* The step that makes an order visible: one order of the requesting user, one
\* snapshot per cart row of that user, the total of those rows, the cart empty.
OrderCommitted ==
    LET u == co.user
        lines == CartOf(cart_items, u)
        id == Len(orders) + 1
        snaps == Appended(order_items, order_items')
    IN /\ Len(orders') = id
       /\ IsExtension(orders, orders')
       /\ IsExtension(order_items, order_items')
       /\ lines # {}
       /\ orders'[id].user_id = u
       /\ orders'[id].total = LinesValue(lines)
       /\ Len(snaps) = Cardinality(lines)
       /\ \A i \in lines :
            Cardinality({k \in DOMAIN snaps :
                snaps[k] = [price |-> products[i.product_id].price,
                            product_id |-> i.product_id,
                            quantity |-> i.quantity,
                            order_id |-> id,
                            product_name |-> products[i.product_id].name]}) = 1
       /\ CartOf(cart_items', u) = {}
       /\ cart_items' = cart_items \ lines

\* C1: an order placed from a non-empty cart with a valid form has the total of
\* the cart lines and one snapshot (name, unit price, quantity) per line, and
\* empties the customer's cart; the order, its snapshots and the clearing of
\* the cart become visible in one step, and a request that fails before that
\* step leaves the cart as it was, non-empty, and no order.
C1_OrderPlacedAtomically ==
    [][ /\ (orders' # orders) => OrderCommitted
        /\ (orders' = orders /\ last'.op = "create_order") =>
                (order_items' = order_items /\ cart_items' = cart_items)
        /\ (last'.op = "create_order" /\ last'.step = "fail") =>
                (/\ db' = db
                 /\ CartOf(cart_items', co.user) # {}
                 /\ co'.new_orders = <<>>
                 /\ co'.new_items = <<>>) ]_vars

\* The spec's example: borscht x 2 and varenyky x 1 ordered for 25.50.
C1_Witness ==
    /\ last.op = "create_order"
    /\ last.step = "clear_cart"
    /\ Len(orders) = 1
    /\ orders[1].total = 2550
    /\ Len(order_items) = 2
    /\ \E k \in DOMAIN order_items :
          /\ order_items[k].product_name = "borscht"
          /\ order_items[k].quantity = 2
    /\ CartOf(cart_items, orders[1].user_id) = {}

\* The first step of a create_order request of user last'.user, whose cart is
\* empty before the step.
OrderRequestOnEmptyCart ==
    /\ last'.op = "create_order"
    /\ last'.step = "begin"
    /\ CartOf(cart_items, last'.user) = {}

NothingWritten == db' = db /\ co' = Idle

\* C2 as stated: with an empty cart, placing an order writes nothing and
\* signals "cart empty".
C2_EmptyCartSignalsCartEmpty ==
    [][ OrderRequestOnEmptyCart =>
            (/\ NothingWritten
             /\ last'.flash = "cart_empty"
             /\ last'.body = "redirect:cart") ]_vars

\* C2 amended: with an empty cart, placing an order writes nothing and
\* redirects to the cart; it signals "cart empty" when the order form is
\* valid, and the form error when it is not (the form is validated first).
C2_EmptyCartWritesNothing ==
    [][ OrderRequestOnEmptyCart =>
            (/\ NothingWritten
             /\ last'.body = "redirect:cart"
             /\ last'.flash = IF OrderFormValid(last'.input)
                              THEN "cart_empty" ELSE "check_order_data") ]_vars

C2_Witness ==
    /\ last.op = "create_order"
    /\ last.flash = "cart_empty"
    /\ CartOf(cart_items, last.user) = {}
    /\ \E i \in cart_items : i.user_id # last.user

-----------------------------------------------------------------------------
(* Payment callbacks *)

\* The step handled a payment callback (last' is the request and its response).
CallbackHandled == last'.op = "liqpay_order_callback"

\* The signature is base64(SHA1(K + data + K)) for the configured key K.
CorrectlySigned(req) ==
    /\ req.data.kind = "b64"
    /\ LIQPAY_PRIVATE_KEY.kind = "key"
    /\ LIQPAY_PRIVATE_KEY.text # <<>>
    /\ req.signature.kind = "digest"
    /\ req.signature.of = <<LIQPAY_PRIVATE_KEY.text, req.data,
                            LIQPAY_PRIVATE_KEY.text>>

IsJsonObject(req) == req.data.kind = "b64" /\ req.data.doc.json = "object"

\* The callback carries the order_id create_order sent for order o.
NamesOrder(req, o) ==
    /\ IsJsonObject(req)
    /\ req.data.doc.order_id = [s |-> OrderRef(o), t |-> "str"]

SignedCallbackFor(o) ==
    /\ CallbackHandled
    /\ CorrectlySigned(last'.input)
    /\ NamesOrder(last'.input, o)

AnsweredOK == last'.body = "OK" /\ last'.code = 200

\* C3: a correctly signed callback for an order that is already paid or failed
\* is answered "OK"/200, whatever status it carries, and no step changes the
\* payment status of such an order: it changes at most once, from pending.
C3_ResolvedOrderUnchanged ==
    [][ \A o \in DOMAIN orders :
          orders[o].payment_status \in {"paid", "failed"} =>
             /\ o \in DOMAIN orders'
             /\ orders'[o].payment_status = orders[o].payment_status
             /\ SignedCallbackFor(o) => AnsweredOK ]_vars

\* A "failure" callback was replayed on a paid order.
C3_Witness ==
    /\ last.op = "liqpay_order_callback"
    /\ CorrectlySigned(last.input)
    /\ NamesOrder(last.input, 1)
    /\ last.input.data.doc.status = "failure"
    /\ orders[1].payment_status = "paid"
    /\ last.body = "OK"

\* The payment status the claim gives for a callback status.
ClaimedPaymentStatus(status) ==
    CASE status \in {"success", "sandbox"} -> "paid"
      [] status \in {"failure", "error", "reversed"} -> "failed"
      [] OTHER -> "pending"

\* C4: a correctly signed callback for a pending order sets payment status to
\* paid on success or sandbox, to failed on failure, error or reversed, and
\* leaves it pending on any other or absent status; nothing else of the order
\* (total, status, items) and no other order changes.
C4_PendingOrderTransition ==
    [][ \A o \in DOMAIN orders :
          (SignedCallbackFor(o) /\ orders[o].payment_status = "pending") =>
             /\ orders' = [orders EXCEPT ![o].payment_status =
                              ClaimedPaymentStatus(last'.input.data.doc.status)]
             /\ order_items' = order_items ]_vars

C4_Witness ==
    /\ last.op = "liqpay_order_callback"
    /\ CorrectlySigned(last.input)
    /\ NamesOrder(last.input, 2)
    /\ last.input.data.doc.status = "sandbox"
    /\ orders[2].payment_status = "paid"
    /\ orders[1].payment_status = "pending"

\* C6: a callback whose signature is not base64(SHA1(K + data + K)) for the
\* configured key K, or whose data or signature is missing, or that arrives
\* while no key is configured, is rejected with a 400 and changes nothing.
C6_BadSignatureRejected ==
    [][ (CallbackHandled /\ ~CorrectlySigned(last'.input)) =>
            /\ last'.code = 400
            /\ last'.body \in {"Missing data", "Invalid signature"}
            /\ db' = db ]_vars

\* A "success" callback for pending order 1, signed with another key.
C6_Witness ==
    /\ last.op = "liqpay_order_callback"
    /\ LIQPAY_PRIVATE_KEY = [kind |-> "key", text |-> Key1]
    /\ NamesOrder(last.input, 1)
    /\ last.input.data.doc.status = "success"
    /\ last.input.signature = Sha1B64(<<Key2, last.input.data, Key2>>)
    /\ last.body = "Invalid signature"
    /\ orders[1].payment_status = "pending"

OrderPrefix == <<"O", "R", "D", "E", "R", "_">>

\* The order_id is a string of the shape ORDER_<digits>.
HasOrderShape(v) ==
    /\ v.t = "str"
    /\ Len(v.s) > Len(OrderPrefix)
    /\ SubSeq(v.s, 1, Len(OrderPrefix)) = OrderPrefix
    /\ \A k \in (Len(OrderPrefix) + 1)..Len(v.s) : IsDigit(v.s[k])

\* C7: a correctly signed callback whose order_id is present but not of the
\* shape ORDER_<digits> is rejected with "Invalid order_id format"/400 and
\* changes nothing; an order n is only transitioned by an order_id ORDER_<n>.
C7_MalformedOrderIdRejected ==
    [][ (CallbackHandled /\ CorrectlySigned(last'.input)
                         /\ IsJsonObject(last'.input)) =>
          LET v == last'.input.data.doc.order_id IN
          /\ (~NoOrderId(v) /\ ~HasOrderShape(v)) =>
                (/\ last'.body = "Invalid order_id format"
                 /\ last'.code = 400
                 /\ db' = db)
          /\ \A o \in DOMAIN orders :
                orders'[o] # orders[o] =>
                   (/\ HasOrderShape(v)
                    /\ DigitsValue(SubSeq(v.s, Len(OrderPrefix) + 1, Len(v.s))) = o)
      ]_vars

\* C8: a correctly signed failure, error or reversed callback for a pending
\* order is answered "FAILED"/200; every other correctly signed callback for an
\* order on file is answered "OK"/200.
C8_FailureAnsweredFailed ==
    [][ \A o \in DOMAIN orders :
          SignedCallbackFor(o) =>
             IF /\ orders[o].payment_status = "pending"
                /\ last'.input.data.doc.status \in {"failure", "error", "reversed"}
             THEN last'.body = "FAILED" /\ last'.code = 200
             ELSE AnsweredOK ]_vars

-----------------------------------------------------------------------------
(* Concurrent callbacks *)

\* C5 as stated: once an order's payment status is paid or failed, no later
\* write changes it, also when callbacks are handled concurrently.
C5_ResolvedNeverOverwritten ==
    [][ \A o \in DOMAIN orders :
          orders[o].payment_status \in {"paid", "failed"} =>
             orders'[o].payment_status = orders[o].payment_status ]_vars

\* C5 amended: a payment status is only written by a callback that found the
\* order pending when it checked, so a callback that checks after the order
\* was committed paid or failed never overwrites it; the check is no lock, and
\* a callback that checked while the order was pending writes even if another
\* callback resolved the order in between.
C5_WriteOnlyAfterPendingCheck ==
    [][ \A o \in DOMAIN orders :
          orders'[o].payment_status # orders[o].payment_status =>
             \E w \in CallbackWorkers :
                /\ cb[w].pc = "write"
                /\ cb'[w].pc = "idle"
                /\ cb[w].order_id = o
                /\ cb[w].seen = "pending"
                /\ orders'[o].payment_status = cb[w].write ]_vars

\* Two callbacks for the same order have both passed the pending check, one
\* about to write paid, the other failed.
C5_Witness ==
    /\ cb[1].pc = "write"
    /\ cb[2].pc = "write"
    /\ cb[1].order_id = cb[2].order_id
    /\ cb[1].write = "paid"
    /\ cb[2].write = "failed"

-----------------------------------------------------------------------------
(* Ratings *)

RatingsOf(rows, p) == {r \in rows : r.product_id = p}

\* C9: in every committed state each product's displayed rating is the mean
\* of its stored rating rows rounded to one decimal place (a tenth nearest to
\* the mean: count * |rating - mean| <= count / 2), and 0 without rows.
C9_RatingIsRoundedMean ==
    \A p \in ProductIds :
        LET mine == RatingsOf(product_ratings, p)
            n == Cardinality(mine)
            total == SumValues(mine)
            shown == products[p].rating
        IN IF n = 0 THEN shown = 0
           ELSE /\ 2 * (n * shown - total) <= n
                /\ 2 * (total - n * shown) <= n

\* Three users rated product 1 with 1.0, 3.5 and 3.5: 8.0 / 3 is shown as 2.7.
C9_Witness ==
    /\ Cardinality(RatingsOf(product_ratings, 1)) = 3
    /\ SumValues(RatingsOf(product_ratings, 1)) = 80
    /\ products[1].rating = 27
    /\ last.op = "delete_rating"
    /\ last.step = "commit"
    /\ products[2].rating = 0

\* C10: there is at most one rating row per (product, user); a rating by a
\* user who already rated the product replaces the stored value and leaves
\* the number of the product's rating rows unchanged.
C10_OneRatingPerUser ==
    [][ /\ \A p \in ProductIds, u \in RaterIds :
              Cardinality({r \in product_ratings' :
                              r.product_id = p /\ r.user_id = u}) <= 1
        /\ (/\ last'.op = "add_or_update_rating"
            /\ last'.input.value >= 10
            /\ last'.input.value <= 50) =>
              LET p == last'.input.product_id
                  u == last'.input.user_id
                  before == {r \in product_ratings :
                                r.product_id = p /\ r.user_id = u}
                  after == {r \in product_ratings' :
                                r.product_id = p /\ r.user_id = u}
              IN /\ after = {[user_id |-> u, product_id |-> p,
                              value |-> last'.input.value]}
                 /\ before # {} =>
                       Cardinality(RatingsOf(product_ratings', p))
                          = Cardinality(RatingsOf(product_ratings, p)) ]_vars

\* User 2 rated product 1 again: the row now holds the second value, 5.0.
C10_Witness ==
    /\ last.op = "add_or_update_rating"
    /\ last.input = [user_id |-> 2, product_id |-> 1, value |-> 50]
    /\ products[1].rating = 50
    /\ RatingsOf(product_ratings, 1) = {[user_id |-> 2, product_id |-> 1, value |-> 50]}
    /\ RatingsOf(product_ratings, 2) # {}

-----------------------------------------------------------------------------
(* The cart *)

\* C12: after any sequence of add-to-cart, update-quantity and remove
\* requests every cart row's quantity is an integer from 1 to 99.
C12_QuantityWithinFormRange ==
    \A i \in cart_items : i.quantity \in 1..99

\* The cart row a cart request names, in the state before the request.
NamedItem == {i \in cart_items : i.id = last'.input.arg}

\* C13: a request by user A to update or to remove a cart item owned by
\* another user B is answered 403 and leaves every cart row unchanged.
C13_ForeignCartItemForbidden ==
    [][ (/\ last'.op \in {"update_cart", "remove_from_cart"}
         /\ \E i \in NamedItem : i.user_id # last'.user) =>
           /\ last'.code = 403
           /\ cart_items' = cart_items ]_vars

\* User 1 asked, with a valid form, for quantity 99 on a row of user 2.
C13_Witness ==
    /\ last.op = "update_cart"
    /\ last.user = 1
    /\ last.input.form_valid
    /\ last.input.quantity = 99
    /\ last.code = 403
    /\ \E i \in cart_items :
          i.id = last.input.arg /\ i.user_id = 2 /\ i.quantity = 2

\* The product named by an add-to-cart request is not on sale.
AddOfMissingProduct ==
    /\ last'.op = "add_to_cart"
    /\ \/ last'.input.arg \notin DOMAIN products
       \/ products[last'.input.arg].is_deleted
       \/ ~products[last'.input.arg].is_available

\* C14 as stated: every add-to-cart request for a product that does not
\* exist, is soft-deleted or is unavailable is answered 404 and creates or
\* increments no cart row.
C14_MissingProductNotFound ==
    [][ AddOfMissingProduct =>
           /\ last'.code = 404
           /\ cart_items' = cart_items ]_vars

\* C14, amended: such a request creates or increments no cart row; it is
\* answered 404 when its form validates and by the redirect to the cart,
\* without a 404, when its form does not.
C14_MissingProductNeverAdded ==
    [][ AddOfMissingProduct =>
           /\ cart_items' = cart_items
           /\ last'.input.form_valid => last'.code = 404
           /\ ~last'.input.form_valid =>
                 (last'.code = 302 /\ last'.flash = None) ]_vars

\* A valid add of the soft-deleted product 2 by a user who already has a
\* cart row was answered 404.
C14_Witness ==
    /\ last.op = "add_to_cart"
    /\ last.input = [arg |-> 2, form_valid |-> TRUE]
    /\ products[2].is_deleted
    /\ last.code = 404
    /\ QuantityOf(cart_items, last.user, 1) = 2
    /\ QuantityOf(cart_items, last.user, 2) = 0

\* C11: a cart holds at most one row per (user, product), and every
\* add-to-cart request for a product on sale ends by raising the quantity of
\* the row of (user, product) by exactly 1 (from 0 when there was no row),
\* also when two such requests are handled concurrently.
C11_AddIncrementsSingleRow ==
    [][ /\ \A r1, r2 \in cart_items' :
              (r1.user_id = r2.user_id /\ r1.product_id = r2.product_id)
                 => r1 = r2
        /\ (last'.op = "add_to_cart" /\ last'.step # "read") =>
              QuantityOf(cart_items', last'.user, last'.input.arg)
                 = QuantityOf(cart_items, last'.user, last'.input.arg) + 1
      ]_vars

-----------------------------------------------------------------------------
(* The admin console *)

AdminRoutes ==
    AdminPages \cup
    {"admin_change_order_status", "admin_add_product", "admin_toggle_product",
     "admin_toggle_user_admin", "admin_save_tables", "update_table_position"}

\* The caller of the request just handled was not an admin when it came in.
CallerNotAdmin ==
    \/ last'.user = Anonymous
    \/ last'.user \in DOMAIN users /\ ~users[last'.user].is_admin

\* C15: a request to an admin-only route by a caller who is not an admin,
\* logged in or not, is answered 403 and changes no stored state.
C15_NonAdminForbidden ==
    [][ (last'.op \in AdminRoutes /\ CallerNotAdmin) =>
           /\ last'.code = 403
           /\ db' = db ]_vars

\* A toggle-admin request of an admin was handled.
ToggleByAdmin ==
    /\ last'.op = "admin_toggle_user_admin"
    /\ last'.user \in DOMAIN users
    /\ users[last'.user].is_admin

\* The users table with the admin flag of user t flipped and no other change.
Flipped(t) ==
    [u \in DOMAIN users |->
        IF u = t THEN [users[u] EXCEPT !.is_admin = ~users[u].is_admin]
        ELSE users[u]]

\* C16 as stated: every toggle-admin request of an admin that targets the
\* admin's own id is refused with a warning and changes no admin flag; every
\* one that targets another existing user flips that user's flag and no
\* other.
C16_ToggleAdmin ==
    [][ ToggleByAdmin =>
           LET t == last'.input.arg IN
           /\ t = last'.user =>
                 (users' = users /\ last'.flash = "own_role_warning")
           /\ (t # last'.user /\ t \in DOMAIN users) => users' = Flipped(t)
      ]_vars

\* C16, amended: the same for the requests whose form validates; a request
\* whose form does not validate changes no admin flag.
C16_ToggleAdminValidForm ==
    [][ ToggleByAdmin =>
           LET t == last'.input.arg IN
           IF last'.input.form_valid
           THEN /\ t = last'.user =>
                      (users' = users /\ last'.flash = "own_role_warning")
                /\ (t # last'.user /\ t \in DOMAIN users) =>
                      users' = Flipped(t)
           ELSE users' = users
      ]_vars

\* Admin 2, promoted earlier, asked to toggle their own flag and was warned,
\* while user 1 is no longer an admin.
C16_Witness ==
    /\ last.op = "admin_toggle_user_admin"
    /\ last.user = 2
    /\ last.input = [arg |-> 2, form_valid |-> TRUE]
    /\ last.flash = "own_role_warning"
    /\ users[2].is_admin
    /\ ~users[1].is_admin
    /\ ~users[3].is_admin

\* C19: the menu lists exactly the products that are available and not
\* soft-deleted.
C19_MenuListsProductsOnSale ==
    last.op = "menu" =>
       { last.body.products[k] : k \in DOMAIN last.body.products }
          = { i \in DOMAIN products :
                 products[i].is_available /\ ~products[i].is_deleted }

-----------------------------------------------------------------------------
(* The table layout *)

\* The seat count the seating policy gives a type tag.
SeatsOfType(type) ==
    CASE type = "round" -> 2
      [] type = "square" -> 4
      [] OTHER -> 6

\* A stored table is the table of a submitted entry.
TableOf(t, e) ==
    /\ t.number = e.number
    /\ t.type = e.type
    /\ t.x = e.x
    /\ t.y = e.y
    /\ t.seats = SeatsOfType(e.type)

\* C17: after a successful replace-all with list L the stored tables are
\* exactly the tables of L, one per entry, each with 2 seats when round, 4
\* when square and 6 for any other type.
C17_ReplaceAllStoresList ==
    [][ (last'.op = "admin_save_tables" /\ last'.code = 200) =>
           LET L == last'.input.tables IN
           /\ Cardinality(tables') = Len(L)
           /\ \A k \in DOMAIN L : \E t \in tables' : TableOf(t, L[k])
           /\ \A t \in tables' : \E k \in DOMAIN L : TableOf(t, L[k])
      ]_vars

\* A layout of a lounge table 2 and a square table 1 was saved: they are the
\* stored tables, with 6 and 4 seats.
C17_Witness ==
    /\ last.op = "admin_save_tables"
    /\ last.code = 200
    /\ last.input.tables = <<TableEntry(2, "lounge"), TableEntry(1, "square")>>
    /\ \E t \in tables : t.number = 2 /\ t.seats = 6
    /\ \E t \in tables : t.number = 1 /\ t.seats = 4
    /\ Cardinality(tables) = 2

\* The list of a layout request has an entry without all four fields.
LacksFields(L) ==
    \E k \in DOMAIN L : ~({"number", "type", "x", "y"} \subseteq L[k].keys)

\* The list of a layout request names a table number twice.
RepeatsNumber(L) ==
    \E j, k \in DOMAIN L : j # k /\ L[j].number = L[k].number

\* C18: a layout save by an admin that fails, because an entry lacks a field
\* or because two entries carry the same number, leaves the stored tables
\* as they were and answers 400 for the missing field and 500 for the
\* repeated number; table numbers stay unique.
C18_FailedSaveKeepsTables ==
    [][ /\ \A t1, t2 \in tables' : t1.number = t2.number => t1 = t2
        /\ (/\ last'.op = "admin_save_tables"
            /\ last'.user \in DOMAIN users
            /\ users[last'.user].is_admin
            /\ last'.input.kind = "object"
            /\ LacksFields(last'.input.tables)
                  \/ RepeatsNumber(last'.input.tables)) =>
              /\ tables' = tables
              /\ last'.code = IF LacksFields(last'.input.tables)
                              THEN 400 ELSE 500
      ]_vars

\* A save of two tables numbered 1 failed with 500 on a floor plan of two
\* tables, which are still there.
C18_Witness ==
    /\ last.op = "admin_save_tables"
    /\ last.code = 500
    /\ last.input.tables = <<TableEntry(1, "round"), TableEntry(1, "square")>>
    /\ Cardinality(tables) = 2
    /\ \E t \in tables : t.number = 2 /\ t.type = "lounge"

-----------------------------------------------------------------------------
(* Placed orders *)

\* The item snapshots of order k, in insertion order.
SnapshotsOf(items, k) == SelectSeq(items, LAMBDA i : i.order_id = k)

\* C20: the total and the item snapshots of a placed order never change:
\* order-status changes, payment callbacks, product toggles and additions
\* and cart requests change at most the order's status and payment status.
C20_OrderSnapshotFrozen ==
    [][ \A k \in DOMAIN orders :
           /\ k \in DOMAIN orders'
           /\ orders'[k].total = orders[k].total
           /\ [orders'[k] EXCEPT !.status = orders[k].status,
                                 !.payment_status = orders[k].payment_status]
                 = orders[k]
           /\ SnapshotsOf(order_items', k) = SnapshotsOf(order_items, k)
      ]_vars

\* Order 1 is cooking and paid, its product is soft-deleted, a product was
\* added and customer 2 has a cart; order 1 is as it was placed.
C20_Witness ==
    /\ orders[1].status = "cooking"
    /\ orders[1].payment_status = "paid"
    /\ orders[2].payment_status = "failed"
    /\ products[1].is_deleted
    /\ Len(products) = 3
    /\ cart_items # {}
    /\ orders[1].total = 1000
    /\ SnapshotsOf(order_items, 1) = <<SeedOrderItem(1)>>

-----------------------------------------------------------------------------
(* Registration *)

\* A registration request was answered (by its check or by its commit).
RegistrationAnswered == last'.op = "register" /\ last'.step # "check"

\* The email of the request is on file, compared ignoring case after
\* trimming.
OnFile(email) ==
    \E u \in DOMAIN users : Lower(users[u].email) = Lower(Strip(email))

\* C21: a registration whose email is already on file, compared ignoring
\* case after trimming, creates no user; no two users ever have emails that
\* are equal ignoring case, also when registrations for one email are
\* handled concurrently; every user a registration creates is no admin.
C21_EmailUniqueIgnoringCase ==
    [][ /\ (RegistrationAnswered /\ OnFile(last'.input.email)) =>
              /\ users' = users
              /\ last'.flash # "registered"
        /\ \A u, v \in DOMAIN users' :
              Lower(users'[u].email) = Lower(users'[v].email) => u = v
        /\ users' # users =>
              /\ Len(users') = Len(users) + 1
              /\ SubSeq(users', 1, Len(users)) = users
              /\ ~users'[Len(users')].is_admin
      ]_vars

\* Two workers checked B@x / b@x while it was free; one created b@x, the
\* other's commit was refused, and b@x is on file once.
C21_Witness ==
    /\ last.op = "register"
    /\ last.step = "rollback"
    /\ last.input.email = <<"b", "@", "x">>
    /\ Len(users) = 2
    /\ users[2].email = <<"b", "@", "x">>
    /\ ~users[2].is_admin

-----------------------------------------------------------------------------
(* Reservations *)

\* A reservation request of a logged-in customer was handled.
ReservationHandled ==
    last'.op = "create_reservation" /\ last'.user # Anonymous

\* The form of the request validates and names a stored table.
ReservationAccepted ==
    /\ last'.input.form_valid
    /\ last'.input.guests \in 1..6
    /\ \E t \in tables : t.id = last'.input.table_id

\* C23: a successful reservation submission creates one active reservation
\* for the caller and the chosen table and marks that table unavailable,
\* every other table staying as it was; a submission that fails validation
\* or names a table that does not exist creates no reservation and changes
\* no table.
C23_ReservationMarksTable ==
    [][ ReservationHandled =>
           IF ReservationAccepted
           THEN /\ \E r \in reservations' :
                      /\ reservations' = reservations \cup {r}
                      /\ r \notin reservations
                      /\ r.status = "active"
                      /\ r.user_id = last'.user
                      /\ r.table_id = last'.input.table_id
                /\ \A t \in tables :
                      IF t.id = last'.input.table_id
                      THEN [t EXCEPT !.is_available = FALSE] \in tables'
                      ELSE t \in tables'
                /\ Cardinality(tables') = Cardinality(tables)
           ELSE reservations' = reservations /\ tables' = tables
      ]_vars

\* Customer 2 reserved table 2: the reservation is active, table 2 is
\* unavailable and table 1 still available.
C23_Witness ==
    /\ last.op = "create_reservation"
    /\ last.flash = "reserved"
    /\ last.user = 2
    /\ \E r \in reservations :
          r.user_id = 2 /\ r.table_id = 2 /\ r.status = "active"
    /\ \E t \in tables : t.id = 2 /\ ~t.is_available
    /\ \E t \in tables : t.id = 1 /\ t.is_available

\* C26: no table ever has more than one active reservation, since a
\* reservation is only created for a table that is available at the time
\* of the request.
C26_OneActiveReservationPerTable ==
    [][ /\ \A r \in reservations' \ reservations :
              \E t \in tables : t.id = r.table_id /\ t.is_available
        /\ \A r1, r2 \in reservations' :
              (r1.table_id = r2.table_id /\ r1.status = "active"
                 /\ r2.status = "active") => r1 = r2
      ]_vars

-----------------------------------------------------------------------------
(* Sessions *)

\* The customer endpoints behind @login_required.
LoginRequiredRoutes ==
    {"profile", "cart", "add_to_cart", "update_cart", "remove_from_cart",
     "create_order", "add_rating", "create_reservation", "order_result",
     "order_success"}

\* C22: a request without a login session to a login-required customer
\* endpoint is redirected to the login page and writes nothing; a logout
\* leaves the browser without a session, and a browser without a session
\* gets one only by a login whose email and password are those of a user.
C22_LoginRequired ==
    [][ /\ (last'.op \in LoginRequiredRoutes /\ last'.user = Anonymous) =>
              /\ last'.body = "redirect:login"
              /\ last'.code = 302
              /\ db' = db
              /\ co' = co
              /\ session' = session
        /\ \A b \in Browsers :
              /\ (last'.op = "logout" /\ last'.input.browser = b) =>
                    session'[b] = Anonymous
              /\ (session[b] = Anonymous /\ session'[b] # Anonymous) =>
                    /\ last'.op = "login"
                    /\ last'.input.browser = b
                    /\ session'[b] \in DOMAIN users
                    /\ Lower(Strip(last'.input.email)) = users[session'[b]].email
                    /\ users[session'[b]].password.of = last'.input.password
      ]_vars

\* Browser 1 logged in as user 1 and filled a cart, logged out, and its
\* request to add to the cart was then sent to the login page; the cart is
\* as it was.
C22_Witness ==
    /\ last.op = "add_to_cart"
    /\ last.user = Anonymous
    /\ last.body = "redirect:login"
    /\ session[1] = Anonymous
    /\ \E i \in cart_items : i.user_id = 1 /\ i.quantity = 2
    /\ session[2] = 2

-----------------------------------------------------------------------------
(* Product images *)

\* The filename has a period, and the text after its last period is, in
\* lower case, one of png, jpg, jpeg, webp.
AcceptableName(f) ==
    \E k \in DOMAIN f :
       /\ f[k] = "."
       /\ \A j \in (k + 1)..Len(f) : f[j] # "."
       /\ Lower(SubSeq(f, k + 1, Len(f))) \in
             { <<"p", "n", "g">>, <<"j", "p", "g">>, <<"j", "p", "e", "g">>,
               <<"w", "e", "b", "p">> }

\* An admin's add-product request whose other fields validate was handled.
ProductSubmitted ==
    /\ last'.op = "admin_add_product"
    /\ last'.user \in DOMAIN users
    /\ users[last'.user].is_admin
    /\ last'.input.form_valid
    /\ last'.input.name # ""
    /\ last'.input.price >= 1

\* C24: an uploaded image is accepted exactly when its filename has a
\* period and the text after the last period, lower-cased, is png, jpg,
\* jpeg or webp; it is then stored under a fresh name with that lower-case
\* extension.  Without a valid upload the product is still created, with
\* the form's image URL or without an image reference.
C24_UploadAcceptedByExtension ==
    [][ ProductSubmitted =>
           LET f == last'.input.image
               url == last'.input.image_url
               new == products'[Len(products')]
           IN /\ Len(products') = Len(products) + 1
              /\ IF f # <<>> /\ AcceptableName(f)
                 THEN /\ new.image_url.kind = "upload"
                      /\ \E k \in DOMAIN f :
                            new.image_url.ext = Lower(SubSeq(f, k + 1, Len(f)))
                      /\ \A i \in DOMAIN products :
                            products[i].image_url.kind = "upload" =>
                               products[i].image_url.token # new.image_url.token
                 ELSE new.image_url =
                         IF url # "" THEN [kind |-> "url", url |-> url]
                         ELSE [kind |-> "none"]
      ]_vars

-----------------------------------------------------------------------------
(* Admins *)

\* C25: while some user is an admin, toggle-admin requests, also those of
\* two admins handled concurrently, leave at least one admin.
C25_SomeAdminRemains ==
    [][ (\E u \in DOMAIN users : users[u].is_admin) =>
           (\E u \in DOMAIN users' : users'[u].is_admin) ]_vars

-----------------------------------------------------------------------------
(* Order placement against concurrent cart requests *)

\* The snapshots the commit of an order placement adds to order_items.
NewSnapshots ==
    { order_items'[k] : k \in (Len(order_items) + 1)..Len(order_items') }

\* C28: when an order placement and the same user's cart requests are
\* handled concurrently, every cart row the checkout removes is in the
\* order's snapshots with its whole quantity and counted in the total.
C28_CheckoutLosesNoCartContent ==
    [][ (last'.op = "create_order" /\ last'.step = "clear_cart") =>
           /\ \A r \in cart_items \ cart_items' :
                 \E s \in NewSnapshots :
                    /\ s.order_id = Len(orders')
                    /\ s.product_id = r.product_id
                    /\ s.quantity = r.quantity
           /\ orders'[Len(orders')].total =
                 OrderTotal(RowsById(cart_items \ cart_items'))
      ]_vars

-----------------------------------------------------------------------------
(* The life of an order *)

\* C27: every item snapshot of an order refers to a product that was
\* available and not soft-deleted when the order was placed.
C27_OrderedProductsOnSale ==
    [][ (last'.op = "create_order" /\ last'.step = "clear_cart") =>
           \A s \in NewSnapshots :
              /\ products[s.product_id].is_available
              /\ ~products[s.product_id].is_deleted
      ]_vars

\* An admin's request to change the status of a stored order to one of the
\* five values was handled.
StatusChangeByAdmin ==
    /\ last'.op = "admin_change_order_status"
    /\ last'.user \in DOMAIN users
    /\ users[last'.user].is_admin
    /\ last'.input.arg \in DOMAIN orders
    /\ last'.input.form_valid
    /\ last'.input.status \in {"new", "cooking", "ready", "delivered", "cancelled"}

\* C29: every order is created new and pending; an order's payment status
\* changes only in the handling of a callback whose signature verifies; the
\* admin status change sets the status to any of the five values from any
\* value and leaves the payment status.
C29_PaymentStatusOnlyByCallback ==
    [][ /\ \A k \in DOMAIN orders' \ DOMAIN orders :
              orders'[k].status = "new" /\ orders'[k].payment_status = "pending"
        /\ \A k \in DOMAIN orders :
              orders'[k].payment_status # orders[k].payment_status =>
                 /\ last'.op = "liqpay_order_callback"
                 /\ last'.input.signature =
                       Sha1B64(Concat3(LIQPAY_PRIVATE_KEY.text, last'.input.data,
                                       LIQPAY_PRIVATE_KEY.text))
        /\ StatusChangeByAdmin =>
              /\ orders'[last'.input.arg].status = last'.input.status
              /\ orders'[last'.input.arg].payment_status =
                    orders[last'.input.arg].payment_status
      ]_vars

\* Order 1 was paid by a callback and the admin has set it back from another
\* status to new; order 2 is new and pending.
C29_Witness ==
    /\ last.op = "admin_change_order_status"
    /\ last.input.status = "new"
    /\ Len(orders) = 2
    /\ orders[1].status = "new"
    /\ orders[1].payment_status = "paid"
    /\ orders[2].status = "new"
    /\ orders[2].payment_status = "pending"
    /\ last.flash = "status_updated"

\* C30: for an order the caller owns whose payment status is pending or
\* failed, neither the payment-result page nor the order-success page
\* shows the success confirmation; the confirmation is shown only for an
\* order the caller owns that is paid.
C30_SuccessOnlyWhenPaid ==
    [][ /\ (/\ last'.op \in {"order_result", "order_success"}
            /\ last'.input \in DOMAIN orders
            /\ orders[last'.input].user_id = last'.user
            /\ orders[last'.input].payment_status \in {"pending", "failed"}) =>
              last'.body \notin {"render:order_success", "redirect:order_success"}
        /\ (last'.op = "order_success" /\ last'.body = "render:order_success") =>
              /\ orders[last'.input].user_id = last'.user
              /\ orders[last'.input].payment_status = "paid"
      ]_vars

=============================================================================
